---- MODULE Spec2Model ----
(***************************************************************************)
(* Model of the expression engine of SimuladorMatriz:                      *)
(*   tokenize -> toRPN -> evaluateExpression (src/utils/expressionParser)  *)
(*   and the matrix primitives it dispatches to (matrixMath, which is the  *)
(*   tail of src/utils/pdfGenerator.ts, lines 311-612).                    *)
(*                                                                         *)
(* Numbers.  A JavaScript number is modelled as an exact decimal           *)
(* [m |-> mantissa, e |-> number of decimal places], kept normalised, so   *)
(* that toFixed(4) really rounds and Number.isInteger really tests.  The   *)
(* binary representation error of IEEE doubles is not modelled.  NaN is    *)
(* the record with e = -1.  A number whose mantissa leaves the range       *)
(* -MaxMantissa..MaxMantissa (a high power of a matrix) is the record      *)
(* Inexact: the model says nothing about its value.                        *)
(*                                                                         *)
(* Strings are sequences of one-character strings; a name built by a       *)
(* template literal is the concatenation of its fragments.  The two non-   *)
(* ASCII characters of result names are written {sup T} and {middot}.      *)
(*                                                                         *)
(* Arrays of numbers live in a heap (a sequence of arrays addressed by     *)
(* index): a matrix's data is the reference of an outer array whose        *)
(* elements are the references of its row arrays, so sharing of a grid or  *)
(* of a row between two matrices is visible in the model.                  *)
(***************************************************************************)
EXTENDS Integers, Sequences, FiniteSets, TLC

\* ------------------------------------------------------------------ bounds
MaxDim == 2        \* largest number of rows / columns of an input matrix
MaxSeed == 3       \* number of different cell fillings of an input matrix
MaxMatrices == 2   \* longest availableMatrices list
MaxExprLen == 3    \* longest exhaustively enumerated expression

\* ----------------------------------------------------------------- numbers
NaN == [m |-> 0, e |-> -1]

\* a finite number whose mantissa is beyond MaxMantissa: its value is not
\* computed, and every sum, difference or product with it is Inexact again
Inexact == [m |-> 0, e |-> -2]

MaxMantissa == 1000000000

IsNaN(x) == x.e = -1

IsInexact(x) == x.e = -2

RECURSIVE Pow10(_)
Pow10(k) == IF k <= 0 THEN 1 ELSE 10 * Pow10(k - 1)

RECURSIVE Norm(_, _)
Norm(m, e) ==
  IF e > 0 /\ m % 10 = 0 THEN Norm(m \div 10, e - 1) ELSE [m |-> m, e |-> e]

Num(n) == [m |-> n, e |-> 0]

Dec(m, e) == Norm(m, e)

Abs(n) == IF n < 0 THEN 0 - n ELSE n

Max(a, b) == IF a > b THEN a ELSE b

\* |m * 10^k| <= MaxMantissa
Scales(m, k) == k <= 9 /\ Abs(m) <= MaxMantissa \div Pow10(k)

Exact(m, e) == IF Abs(m) > MaxMantissa THEN Inexact ELSE Norm(m, e)

\* a + b
numAdd(a, b) ==
  IF IsNaN(a) \/ IsNaN(b) THEN NaN
  ELSE IF IsInexact(a) \/ IsInexact(b) THEN Inexact
  ELSE IF a.m = 0 THEN b
  ELSE IF b.m = 0 THEN a
  ELSE LET e == Max(a.e, b.e)
       IN IF Scales(a.m, e - a.e) /\ Scales(b.m, e - b.e)
          THEN Exact(a.m * Pow10(e - a.e) + b.m * Pow10(e - b.e), e)
          ELSE Inexact

\* a - b
numSub(a, b) ==
  IF IsNaN(a) \/ IsNaN(b) THEN NaN
  ELSE IF IsInexact(a) \/ IsInexact(b) THEN Inexact
  ELSE IF b.m = 0 THEN a
  ELSE IF a.m = 0 THEN [m |-> 0 - b.m, e |-> b.e]
  ELSE LET e == Max(a.e, b.e)
       IN IF Scales(a.m, e - a.e) /\ Scales(b.m, e - b.e)
          THEN Exact(a.m * Pow10(e - a.e) - b.m * Pow10(e - b.e), e)
          ELSE Inexact

\* a * b
numMul(a, b) ==
  IF IsNaN(a) \/ IsNaN(b) THEN NaN
  ELSE IF IsInexact(a) \/ IsInexact(b) THEN Inexact
  ELSE IF a.m = 0 \/ b.m = 0 THEN Num(0)
  ELSE IF Abs(a.m) <= MaxMantissa \div Abs(b.m)
       THEN Norm(a.m * b.m, a.e + b.e)
       ELSE Inexact

\* a < b (false when either is NaN; an Inexact operand does not arise: the
\* only comparison is on an exponent, which is a numeral or an exact scalar)
numLess(a, b) ==
  IF IsNaN(a) \/ IsNaN(b) \/ IsInexact(a) \/ IsInexact(b) THEN FALSE
  ELSE IF a.m = 0 THEN b.m > 0
  ELSE IF b.m = 0 THEN a.m < 0
  ELSE LET e == Max(a.e, b.e)
       IN IF ~Scales(a.m, e - a.e) THEN a.m < 0
          ELSE IF ~Scales(b.m, e - b.e) THEN b.m > 0
          ELSE a.m * Pow10(e - a.e) < b.m * Pow10(e - b.e)

\* Number.isInteger(x)
IsInteger(x) == x.e = 0

\* parseFloat(x.toFixed(4)): round to 4 decimals, ties away from zero
toFixed4(x) ==
  IF IsNaN(x) \/ IsInexact(x) THEN x
  ELSE IF x.e <= 4 THEN x
  ELSE IF x.e > 13 THEN Num(0)
  ELSE LET p == Pow10(x.e - 4)
           a == Abs(x.m)
           q == (a \div p) + (IF 2 * (a % p) >= p THEN 1 ELSE 0)
       IN Norm(IF x.m < 0 THEN 0 - q ELSE q, 4)

\* ----------------------------------------------------------------- strings
Digits == <<"0", "1", "2", "3", "4", "5", "6", "7", "8", "9">>

LowerLetters ==
  <<"a", "b", "c", "d", "e", "f", "g", "h", "i", "j", "k", "l", "m",
    "n", "o", "p", "q", "r", "s", "t", "u", "v", "w", "x", "y", "z">>

UpperLetters ==
  <<"A", "B", "C", "D", "E", "F", "G", "H", "I", "J", "K", "L", "M",
    "N", "O", "P", "Q", "R", "S", "T", "U", "V", "W", "X", "Y", "Z">>

IsDigit(c) == \E d \in 1..10 : Digits[d] = c

IsLetter(c) == \E k \in 1..26 : LowerLetters[k] = c \/ UpperLetters[k] = c

IsSpace(c) == c \in {" ", "\t", "\n"}

IsOpChar(c) == c \in {"'", "+", "-", "*", "/", "^", "(", ")", ","}

DigitVal(c) == (CHOOSE d \in 1..10 : Digits[d] = c) - 1

UpperChar(c) ==
  IF \E k \in 1..26 : LowerLetters[k] = c
  THEN UpperLetters[CHOOSE k \in 1..26 : LowerLetters[k] = c]
  ELSE c

\* s.toUpperCase()
toUpperCase(s) == [k \in 1..Len(s) |-> UpperChar(s[k])]

RECURSIVE IntStr(_)
IntStr(n) ==
  IF n < 10 THEN <<Digits[n + 1]>>
  ELSE IntStr(n \div 10) \o <<Digits[(n % 10) + 1]>>

\* the n low decimal digits of a, zero padded on the left
RECURSIVE FracStr(_, _)
FracStr(a, n) ==
  IF n = 0 THEN <<>> ELSE FracStr(a \div 10, n - 1) \o <<Digits[(a % 10) + 1]>>

\* `${x}` for a number
NumStr(x) ==
  IF IsNaN(x) THEN <<"NaN">>
  ELSE IF IsInexact(x) THEN <<"(inexact)">>
  ELSE LET a == Abs(x.m)
           p == Pow10(x.e)
       IN (IF x.m < 0 THEN <<"-">> ELSE <<>>)
          \o IntStr(a \div p)
          \o (IF x.e = 0 THEN <<>> ELSE <<".">> \o FracStr(a % p, x.e))

\* parseFloat of a numeral lexeme digits[.digits]
RECURSIVE ParseDigits(_, _, _, _)
ParseDigits(s, k, m, e) ==
  IF k > Len(s) THEN Norm(m, IF e < 0 THEN 0 ELSE e)
  ELSE IF s[k] = "." THEN ParseDigits(s, k + 1, m, 0)
  ELSE ParseDigits(s, k + 1, 10 * m + DigitVal(s[k]), IF e < 0 THEN e ELSE e + 1)

parseFloat(s) == ParseDigits(s, 1, 0, -1)

RECURSIVE Join(_, _)
Join(names, sep) ==
  IF Len(names) = 0 THEN <<>>
  ELSE IF Len(names) = 1 THEN names[1]
  ELSE names[1] \o sep \o Join(Tail(names), sep)

\* -------------------------------------------------------------------- heap
\* A world is the heap of arrays together with the source of fresh ids
\* (crypto.randomUUID never repeats an id).
World(heap, nextId) == [heap |-> heap, nextId |-> nextId]

\* m.data[i] exists
HasRow(h, m, i) == i \in 1..Len(h[m.data])

\* m.data[i][j]; a missing column reads undefined, which arithmetic turns
\* into NaN
Get(h, m, i, j) ==
  LET row == h[h[m.data][i]]
  IN IF j \in 1..Len(row) THEN row[j] ELSE NaN

\* the grid a matrix's data reference designates, as a sequence of rows
Grid(h, m) == [i \in 1..Len(h[m.data]) |-> h[h[m.data][i]]]

\* createEmptyMatrix(rows, cols): rows fresh row arrays and a fresh outer
\* array
createEmptyMatrix(h, rows, cols) ==
  [heap |-> h \o [i \in 1..rows |-> [j \in 1..cols |-> Num(0)]]
              \o << [i \in 1..rows |-> Len(h) + i] >>,
   ref |-> Len(h) + rows + 1]

\* the assignments grid[i][j] = V(i, j) for all i in 1..rows, j in 1..cols
StoreAll(h, ref, rows, cols, V(_, _)) ==
  [r \in 1..Len(h) |->
     IF \E i \in 1..rows : i <= Len(h[ref]) /\ h[ref][i] = r
     THEN LET i == CHOOSE i \in 1..rows : i <= Len(h[ref]) /\ h[ref][i] = r
          IN [j \in 1..Max(cols, Len(h[r])) |->
                IF j <= cols THEN V(i, j) ELSE h[r][j]]
     ELSE h[r]]

\* ------------------------------------------------------------ step lines
Line(kind, form, row, col, ops, res) ==
  [kind |-> kind, form |-> form, row |-> row, col |-> col,
   ops |-> ops, res |-> res]

Summary(text) == Line("summary", text, 0, 0, <<>>, Num(0))

\* one line per cell, rows outermost
CellLines(rows, cols, L(_, _)) ==
  [n \in 1..(rows * cols) |-> L(((n - 1) \div cols) + 1, ((n - 1) % cols) + 1)]

\* ------------------------------------------------------------ outcomes
Return(w, val) == [throw |-> "none", cls |-> "", w |-> w, val |-> val]

Throw(w, kind, cls) == [throw |-> kind, cls |-> cls, w |-> w, val |-> Num(0)]

Matrix(id, name, rows, cols, data, steps) ==
  [id |-> id, name |-> name, rows |-> rows, cols |-> cols,
   data |-> data, steps |-> steps]

\* variant of SumFrom: sum = val instead of sum += val
SumFrom_overwrite(acc, vals, k) == vals[Len(vals)]

\* left-to-right sum of a sequence of numbers starting from 0
RECURSIVE SumFrom(_, _, _)
SumFrom(acc, vals, k) ==
  IF k > Len(vals) THEN acc ELSE SumFrom(numAdd(acc, vals[k]), vals, k + 1)

\* left-to-right difference vals[1] - vals[2] - ...
RECURSIVE SubFrom(_, _, _)
SubFrom(acc, vals, k) ==
  IF k > Len(vals) THEN acc ELSE SubFrom(numSub(acc, vals[k]), vals, k + 1)

\* -------------------------------------------------------------- primitives
\* variant of addMatrices: the result grid is the first operand's own grid
addMatrices_inPlace(w, matrices) ==
  LET rows == matrices[1].rows
      cols == matrices[1].cols
      vals(i, j) == [k \in 1..Len(matrices) |-> Get(w.heap, matrices[k], i, j)]
      sum(i, j) == SumFrom(Num(0), vals(i, j), 1)
  IN Return(World(StoreAll(w.heap, matrices[1].data, rows, cols, sum), w.nextId + 1),
            Matrix(w.nextId, <<"(">> \o matrices[1].name \o <<")">>, rows, cols,
                   matrices[1].data, <<Summary("Sumando")>>))

\* addMatrices(matrices)
addMatrices(w, matrices) ==
  LET rows == matrices[1].rows
      cols == matrices[1].cols
      e == createEmptyMatrix(w.heap, rows, cols)
      vals(i, j) == [k \in 1..Len(matrices) |-> Get(w.heap, matrices[k], i, j)]
      sum(i, j) == SumFrom(Num(0), vals(i, j), 1)
      line(i, j) == Line("cell", "sum", i, j, vals(i, j), sum(i, j))
      name == IF Len(matrices) <= 3
              THEN <<"(">> \o Join([k \in 1..Len(matrices) |-> matrices[k].name],
                                   <<" ", "+", " ">>) \o <<")">>
              ELSE <<"Suma Total">>
  IN IF \E k \in 1..Len(matrices), i \in 1..rows : ~HasRow(w.heap, matrices[k], i)
     THEN Throw(w, "TypeError", "TypeError")
     ELSE Return(World(StoreAll(e.heap, e.ref, rows, cols, sum), w.nextId + 1),
                 Matrix(w.nextId, name, rows, cols, e.ref,
                        <<Summary("Sumando")>> \o CellLines(rows, cols, line)))

\* subtractMatrices(matrices)
subtractMatrices(w, matrices) ==
  LET rows == matrices[1].rows
      cols == matrices[1].cols
      e == createEmptyMatrix(w.heap, rows, cols)
      vals(i, j) == [k \in 1..Len(matrices) |-> Get(w.heap, matrices[k], i, j)]
      val(i, j) == SubFrom(vals(i, j)[1], vals(i, j), 2)
      line(i, j) == Line("cell", "difference", i, j, vals(i, j), val(i, j))
      name == IF Len(matrices) <= 3
              THEN <<"(">> \o Join([k \in 1..Len(matrices) |-> matrices[k].name],
                                   <<" ", "-", " ">>) \o <<")">>
              ELSE <<"Resta Secuencial">>
  IN IF \E k \in 1..Len(matrices), i \in 1..rows : ~HasRow(w.heap, matrices[k], i)
     THEN Throw(w, "TypeError", "TypeError")
     ELSE Return(World(StoreAll(e.heap, e.ref, rows, cols, val), w.nextId + 1),
                 Matrix(w.nextId, name, rows, cols, e.ref,
                        <<Summary("Restando")>> \o CellLines(rows, cols, line)))

\* the accumulation sum += valA * valB of multiplyTwoMatrices, from 0
\* variant of dotSum: the first product of the row is left out
RECURSIVE dotSum_fromSecond(_, _, _)
dotSum_fromSecond(acc, prods, k) ==
  IF k > Len(prods) THEN acc
  ELSE dotSum_fromSecond(IF k = 1 THEN acc ELSE numAdd(acc, prods[k]), prods, k + 1)

RECURSIVE dotSum(_, _, _)
dotSum(acc, prods, k) ==
  IF k > Len(prods) THEN acc ELSE dotSum(numAdd(acc, prods[k]), prods, k + 1)

\* multiplyTwoMatrices(A, B)
multiplyTwoMatrices(w, A, B) ==
  LET e == createEmptyMatrix(w.heap, A.rows, B.cols)
      prods(i, j) ==
        [k \in 1..A.cols |-> numMul(Get(w.heap, A, i, k), Get(w.heap, B, k, j))]
      ops(i, j) ==
        [n \in 1..(2 * A.cols) |->
           IF n % 2 = 1 THEN Get(w.heap, A, i, (n + 1) \div 2)
           ELSE Get(w.heap, B, n \div 2, j)]
      finalVal(i, j) == toFixed4(dotSum(Num(0), prods(i, j), 1))
      line(i, j) == Line("cell", "dot", i, j, ops(i, j), finalVal(i, j))
  IN IF \/ \E i \in 1..A.rows : ~HasRow(w.heap, A, i)
        \/ A.rows > 0 /\ B.cols > 0 /\ \E k \in 1..A.cols : ~HasRow(w.heap, B, k)
     THEN Throw(w, "TypeError", "TypeError")
     ELSE Return(World(StoreAll(e.heap, e.ref, A.rows, B.cols, finalVal),
                       w.nextId + 1),
                 Matrix(w.nextId,
                        <<"(">> \o A.name \o <<" ", "{middot}", " ">> \o B.name \o <<")">>,
                        A.rows, B.cols, e.ref,
                        <<Summary("Producto fila por columna")>>
                          \o CellLines(A.rows, B.cols, line)))

\* multiplyMatrices(matrices): the loop from index i on
RECURSIVE multiplyChain(_, _, _, _, _)
multiplyChain(w, matrices, currentResult, accumulatedSteps, i) ==
  IF i > Len(matrices)
  THEN Return(w, [currentResult EXCEPT !.steps = accumulatedSteps])
  ELSE LET r == multiplyTwoMatrices(w, currentResult, matrices[i])
           header == IF Len(matrices) > 2
                     THEN <<Line("header", "Paso", i - 1, 0, <<>>, Num(0))>>
                     ELSE <<>>
       IN IF r.throw /= "none" THEN r
          ELSE multiplyChain(r.w, matrices, r.val,
                             accumulatedSteps \o header \o r.val.steps, i + 1)

\* multiplyMatrices(matrices)
multiplyMatrices(w, matrices) == multiplyChain(w, matrices, matrices[1], <<>>, 2)

\* variant of transposeMatrix: the copied cell is rounded like a computed one
transposeMatrix_rounded(w, matrix) ==
  LET e == createEmptyMatrix(w.heap, matrix.cols, matrix.rows)
      val(j, i) == toFixed4(Get(w.heap, matrix, i, j))
  IN Return(World(StoreAll(e.heap, e.ref, matrix.cols, matrix.rows, val),
                  w.nextId + 1),
            Matrix(w.nextId, matrix.name \o <<"{sup T}">>, matrix.cols, matrix.rows,
                   e.ref, <<Summary("Intercambiando filas por columnas")>>))

\* variant of transposeMatrix: the lines follow the rows of the result
transposeMatrix_resultOrder(w, matrix) ==
  LET newRows == matrix.cols
      newCols == matrix.rows
      e == createEmptyMatrix(w.heap, newRows, newCols)
      val(j, i) == Get(w.heap, matrix, i, j)
      line(j, i) == Line("cell", "toma", j, i, <<Get(w.heap, matrix, i, j)>>,
                         Get(w.heap, matrix, i, j))
  IN IF \E i \in 1..matrix.rows : matrix.cols > 0 /\ ~HasRow(w.heap, matrix, i)
     THEN Throw(w, "TypeError", "TypeError")
     ELSE Return(World(StoreAll(e.heap, e.ref, newRows, newCols, val),
                       w.nextId + 1),
                 Matrix(w.nextId, matrix.name \o <<"{sup T}">>, newRows, newCols, e.ref,
                        <<Summary("Intercambiando filas por columnas")>>
                          \o CellLines(newRows, newCols, line)))

\* transposeMatrix(matrix)
transposeMatrix(w, matrix) ==
  LET newRows == matrix.cols
      newCols == matrix.rows
      e == createEmptyMatrix(w.heap, newRows, newCols)
      val(j, i) == Get(w.heap, matrix, i, j)
      \* the source loops run over the rows and columns of the operand
      line(i, j) == Line("cell", "toma", j, i, <<Get(w.heap, matrix, i, j)>>,
                         Get(w.heap, matrix, i, j))
  IN IF \E i \in 1..matrix.rows : matrix.cols > 0 /\ ~HasRow(w.heap, matrix, i)
     THEN Throw(w, "TypeError", "TypeError")
     ELSE Return(World(StoreAll(e.heap, e.ref, newRows, newCols, val),
                       w.nextId + 1),
                 Matrix(w.nextId, matrix.name \o <<"{sup T}">>, newRows, newCols, e.ref,
                        <<Summary("Intercambiando filas por columnas")>>
                          \o CellLines(matrix.rows, matrix.cols, line)))

\* powerMatrix: the loop for (i = 1; i < exponent; i++), i counted as an
\* integer
RECURSIVE powerLoop(_, _, _, _, _, _)
powerLoop(w, matrix, exponent, result, allSteps, i) ==
  IF i >= exponent
  THEN Return(World(w.heap, w.nextId + 1),
              [result EXCEPT !.name = matrix.name \o <<"^">> \o NumStr(Num(exponent)),
                             !.id = w.nextId,
                             !.steps = allSteps])
  ELSE LET nextResult == multiplyTwoMatrices(w, result, matrix)
       IN IF nextResult.throw /= "none" THEN nextResult
          ELSE powerLoop(nextResult.w, matrix, exponent, nextResult.val,
                         allSteps \o <<Line("header", "Potencia", i + 1, 0,
                                            <<>>, Num(0))>>
                                  \o nextResult.val.steps,
                         i + 1)

\* variant of powerMatrix: the loop starts at i = 0
powerMatrix_fromZero(w, matrix, exponent) ==
  IF matrix.rows /= matrix.cols THEN Throw(w, "DimensionMismatch", "Error")
  ELSE IF ~IsInteger(exponent) \/ numLess(exponent, Num(1))
  THEN Throw(w, "InvalidExponent", "Error")
  ELSE powerLoop(w, matrix, exponent.m, matrix, <<>>, 0)

\* variant of powerMatrix: the copy made for exponent 1 keeps the id
powerMatrix_keepId(w, matrix, exponent) ==
  IF matrix.rows /= matrix.cols THEN Throw(w, "DimensionMismatch", "Error")
  ELSE IF ~IsInteger(exponent) \/ numLess(exponent, Num(1))
  THEN Throw(w, "InvalidExponent", "Error")
  ELSE IF exponent = Num(1)
  THEN Return(w, [matrix EXCEPT !.name = matrix.name \o <<"^", "1">>])
  ELSE powerLoop(w, matrix, exponent.m, matrix, <<>>, 1)

\* variant of powerMatrix: the exponent is checked before the shape
powerMatrix_exponentFirst(w, matrix, exponent) ==
  IF ~IsInteger(exponent) \/ numLess(exponent, Num(1))
  THEN Throw(w, "InvalidExponent", "Error")
  ELSE IF matrix.rows /= matrix.cols THEN Throw(w, "DimensionMismatch", "Error")
  ELSE IF exponent = Num(1)
  THEN Return(World(w.heap, w.nextId + 1),
              [matrix EXCEPT !.id = w.nextId,
                             !.name = matrix.name \o <<"^", "1">>,
                             !.steps = <<Summary("Potencia 1 es la misma matriz.")>>])
  ELSE powerLoop(w, matrix, exponent.m, matrix, <<>>, 1)

\* powerMatrix(matrix, exponent)
powerMatrix(w, matrix, exponent) ==
  IF matrix.rows /= matrix.cols THEN Throw(w, "DimensionMismatch", "Error")
  ELSE IF ~IsInteger(exponent) \/ numLess(exponent, Num(1))
  THEN Throw(w, "InvalidExponent", "Error")
  ELSE IF exponent = Num(1)
  THEN Return(World(w.heap, w.nextId + 1),
              [matrix EXCEPT !.id = w.nextId,
                             !.name = matrix.name \o <<"^", "1">>,
                             !.steps = <<Summary("Potencia 1 es la misma matriz.")>>])
  ELSE powerLoop(w, matrix, exponent.m, matrix, <<>>, 1)

\* scalarOperation(matrix, scalar, type)
scalarOperation(w, matrix, scalar, type) ==
  LET h == w.heap
      outer == h[matrix.data]
      n == Len(outer)
      res(i, j) ==
        LET val == h[outer[i]][j]
        IN toFixed4(IF type = "SUMA_ESCALAR" THEN numAdd(val, scalar)
                    ELSE IF type = "RESTA_ESCALAR" THEN numSub(val, scalar)
                    ELSE IF type = "MULT_ESCALAR" THEN numMul(val, scalar)
                    ELSE val)
      newRows == [i \in 1..n |-> [j \in 1..Len(h[outer[i]]) |-> res(i, j)]]
      lines(i) == [j \in 1..Len(h[outer[i]]) |->
                     Line("cell", type, i, j, <<h[outer[i]][j], scalar>>, res(i, j))]
      RECURSIVE allLines(_)
      allLines(i) == IF i > n THEN <<>> ELSE lines(i) \o allLines(i + 1)
  IN Return(World(h \o newRows \o << [i \in 1..n |-> Len(h) + i] >>, w.nextId + 1),
            Matrix(w.nextId, NumStr(scalar) \o <<"(">> \o matrix.name \o <<")">>,
                   matrix.rows, matrix.cols, Len(h) + n + 1,
                   <<Summary("Aplicando escalar")>> \o allLines(1)))

\* ---------------------------------------------------------------- dispatch
\* the values on the evaluator stack: typeof v is "number" or "object"
NumOp(x) == [t |-> "number", v |-> x]

MatOp(m) == [t |-> "object", v |-> m]

\* a primitive's matrix result as a stack value
AsOperand(r) == IF r.throw = "none" THEN [r EXCEPT !.val = MatOp(r.val)] ELSE r

\* variant of genericMultiply: no check of the inner dimensions
genericMultiply_noDimCheck(w, a, b) ==
  IF a.t = "number" /\ b.t = "number" THEN Return(w, NumOp(numMul(a.v, b.v)))
  ELSE IF a.t = "number" /\ b.t /= "number"
  THEN AsOperand(scalarOperation(w, b.v, a.v, "MULT_ESCALAR"))
  ELSE IF a.t /= "number" /\ b.t = "number"
  THEN AsOperand(scalarOperation(w, a.v, b.v, "MULT_ESCALAR"))
  ELSE AsOperand(multiplyTwoMatrices(w, a.v, b.v))

\* variant of genericMultiply: matrix times scalar adds the scalar
genericMultiply_rightAdds(w, a, b) ==
  IF a.t = "number" /\ b.t = "number" THEN Return(w, NumOp(numMul(a.v, b.v)))
  ELSE IF a.t = "number" /\ b.t /= "number"
  THEN AsOperand(scalarOperation(w, b.v, a.v, "MULT_ESCALAR"))
  ELSE IF a.t /= "number" /\ b.t = "number"
  THEN AsOperand(scalarOperation(w, a.v, b.v, "SUMA_ESCALAR"))
  ELSE IF a.v.cols /= b.v.rows THEN Throw(w, "DimensionMismatch", "Error")
  ELSE AsOperand(multiplyTwoMatrices(w, a.v, b.v))

\* genericMultiply(a, b)
genericMultiply(w, a, b) ==
  IF a.t = "number" /\ b.t = "number" THEN Return(w, NumOp(numMul(a.v, b.v)))
  ELSE IF a.t = "number" /\ b.t /= "number"
  THEN AsOperand(scalarOperation(w, b.v, a.v, "MULT_ESCALAR"))
  ELSE IF a.t /= "number" /\ b.t = "number"
  THEN AsOperand(scalarOperation(w, a.v, b.v, "MULT_ESCALAR"))
  ELSE IF a.v.cols /= b.v.rows THEN Throw(w, "DimensionMismatch", "Error")
  ELSE AsOperand(multiplyTwoMatrices(w, a.v, b.v))

\* variant of genericAdd: no check of the shapes
genericAdd_noShapeCheck(w, a, b) ==
  IF a.t = "number" /\ b.t = "number" THEN Return(w, NumOp(numAdd(a.v, b.v)))
  ELSE IF a.t /= "object" \/ b.t /= "object"
  THEN Throw(w, "ScalarMatrixAdditionUnsupported", "Error")
  ELSE AsOperand(addMatrices(w, <<a.v, b.v>>))

\* genericAdd(a, b)
genericAdd(w, a, b) ==
  IF a.t = "number" /\ b.t = "number" THEN Return(w, NumOp(numAdd(a.v, b.v)))
  ELSE IF a.t /= "object" \/ b.t /= "object"
  THEN Throw(w, "ScalarMatrixAdditionUnsupported", "Error")
  ELSE IF a.v.rows /= b.v.rows \/ a.v.cols /= b.v.cols
  THEN Throw(w, "DimensionMismatch", "Error")
  ELSE AsOperand(addMatrices(w, <<a.v, b.v>>))

\* variant of genericSubtract: a scalar is subtracted from every cell
genericSubtract_elementwise(w, a, b) ==
  IF a.t = "number" /\ b.t = "number" THEN Return(w, NumOp(numSub(a.v, b.v)))
  ELSE IF a.t = "object" /\ b.t = "number"
  THEN AsOperand(scalarOperation(w, a.v, b.v, "RESTA_ESCALAR"))
  ELSE IF a.t /= "object" \/ b.t /= "object"
  THEN Throw(w, "ScalarMatrixAdditionUnsupported", "Error")
  ELSE IF a.v.rows /= b.v.rows \/ a.v.cols /= b.v.cols
  THEN Throw(w, "DimensionMismatch", "Error")
  ELSE AsOperand(subtractMatrices(w, <<a.v, b.v>>))

\* genericSubtract(a, b)
genericSubtract(w, a, b) ==
  IF a.t = "number" /\ b.t = "number" THEN Return(w, NumOp(numSub(a.v, b.v)))
  ELSE IF a.t /= "object" \/ b.t /= "object"
  THEN Throw(w, "ScalarMatrixAdditionUnsupported", "Error")
  ELSE IF a.v.rows /= b.v.rows \/ a.v.cols /= b.v.cols
  THEN Throw(w, "DimensionMismatch", "Error")
  ELSE AsOperand(subtractMatrices(w, <<a.v, b.v>>))

\* --------------------------------------------------------------- tokenizer
Token(type, value) == [type |-> type, value |-> value]

\* membership of a character in one of the regex's character classes
InClass(c, cls) ==
  IF cls = "digit" THEN IsDigit(c)
  ELSE IF cls = "letter" THEN IsLetter(c)
  ELSE IF cls = "space" THEN IsSpace(c)
  ELSE FALSE

\* the last index of the maximal run of characters of class cls that starts
\* at p (p - 1 when expr[p] is not of that class)
RECURSIVE RunEnd(_, _, _)
RunEnd(expr, p, cls) ==
  IF p <= Len(expr) /\ InClass(expr[p], cls) THEN RunEnd(expr, p + 1, cls) ELSE p - 1

\* variant of NumeralEnd: the numeral pattern without its fraction part
NumeralEnd_noFraction(expr, p) == RunEnd(expr, p, "digit")

\* the end of the match of [0-9]+(\.[0-9]+)? at p
NumeralEnd(expr, p) ==
  LET q == RunEnd(expr, p, "digit")
  IN IF q + 2 <= Len(expr) /\ expr[q + 1] = "." /\ IsDigit(expr[q + 2])
     THEN RunEnd(expr, q + 2, "digit")
     ELSE q

\* the first index from p on at which one of the alternatives of the regex
\* matches, 0 when there is none
RECURSIVE MatchStart(_, _)
MatchStart(expr, p) ==
  IF p > Len(expr) THEN 0
  ELSE IF IsDigit(expr[p]) \/ IsLetter(expr[p]) \/ IsOpChar(expr[p]) \/ IsSpace(expr[p])
  THEN p
  ELSE MatchStart(expr, p + 1)

\* regex.exec(expr) with lastIndex = from - 1: the match found, or found =
\* FALSE; group is the capture group that matched
regexExec(expr, from) ==
  LET p == MatchStart(expr, from)
  IN IF p = 0 THEN [found |-> FALSE, group |-> "", first |-> 0, last |-> 0]
     ELSE IF IsDigit(expr[p])
     THEN [found |-> TRUE, group |-> "num", first |-> p, last |-> NumeralEnd(expr, p)]
     ELSE IF IsLetter(expr[p])
     THEN [found |-> TRUE, group |-> "id", first |-> p, last |-> RunEnd(expr, p, "letter")]
     ELSE IF IsOpChar(expr[p])
     THEN [found |-> TRUE, group |-> "op", first |-> p, last |-> p]
     ELSE [found |-> TRUE, group |-> "space", first |-> p, last |-> RunEnd(expr, p, "space")]

\* the body of tokenize's while loop for one match: the tokens afterwards
tokenizePush(toks, expr, match) ==
  LET text == SubSeq(expr, match.first, match.last)
  IN IF match.group = "space" THEN toks
     ELSE IF match.group = "num" THEN Append(toks, Token("NUMBER", text))
     ELSE IF match.group = "id" THEN Append(toks, Token("IDENTIFIER", text))
     ELSE IF text = <<"(">> THEN Append(toks, Token("LPAREN", text))
     ELSE IF text = <<")">> THEN Append(toks, Token("RPAREN", text))
     ELSE Append(toks, Token("OPERATOR", text))

\* variant of precedence: * ranks with + and -
precedence_flat(op) ==
  IF op \in {<<"+">>, <<"-">>, <<"*">>, <<"/">>} THEN 1
  ELSE IF op = <<"^">> THEN 3
  ELSE IF op = <<"'">> THEN 4
  ELSE 0

\* ------------------------------------------------------------------- toRPN
\* precedence[op]; 0 stands for undefined (the comma has no entry), which
\* compares false with everything
precedence(op) ==
  IF op \in {<<"+">>, <<"-">>} THEN 1
  ELSE IF op \in {<<"*">>, <<"/">>} THEN 2
  ELSE IF op = <<"^">> THEN 3
  ELSE IF op = <<"'">> THEN 4
  ELSE 0

\* precedence[x] >= precedence[y]
precedenceGeq(x, y) ==
  precedence(x) /= 0 /\ precedence(y) /= 0 /\ precedence(x) >= precedence(y)

Top(st) == st[Len(st)]

Pop(st) == SubSeq(st, 1, Len(st) - 1)

\* variant of popOperators: no exception for an incoming ^
RECURSIVE popOperators_noCarveOut(_, _, _)
popOperators_noCarveOut(out, ops, token) ==
  IF /\ Len(ops) > 0
     /\ Top(ops).type = "OPERATOR"
     /\ precedenceGeq(Top(ops).value, token.value)
  THEN popOperators_noCarveOut(Append(out, Top(ops)), Pop(ops), token)
  ELSE [out |-> out, ops |-> ops]

\* variant of popOperators: an incoming ^ pops a stacked ^
RECURSIVE popOperators_powerPopsPower(_, _, _)
popOperators_powerPopsPower(out, ops, token) ==
  IF /\ Len(ops) > 0
     /\ Top(ops).type = "OPERATOR"
     /\ precedenceGeq(Top(ops).value, token.value)
     /\ (token.value /= <<"^">> \/ Top(ops).value = <<"^">>)
  THEN popOperators_powerPopsPower(Append(out, Top(ops)), Pop(ops), token)
  ELSE [out |-> out, ops |-> ops]

\* the while loop run for an incoming operator token
RECURSIVE popOperators(_, _, _)
popOperators(out, ops, token) ==
  IF /\ Len(ops) > 0
     /\ Top(ops).type = "OPERATOR"
     /\ precedenceGeq(Top(ops).value, token.value)
     /\ token.value /= <<"^">>
  THEN popOperators(Append(out, Top(ops)), Pop(ops), token)
  ELSE [out |-> out, ops |-> ops]

\* the while loop run for a closing parenthesis
RECURSIVE popToLParen(_, _)
popToLParen(out, ops) ==
  IF Len(ops) > 0 /\ Top(ops).type /= "LPAREN"
  THEN popToLParen(Append(out, Top(ops)), Pop(ops))
  ELSE [out |-> out, ops |-> ops]

\* the final while loop: everything left on the operator stack
RECURSIVE popAll(_, _)
popAll(out, ops) ==
  IF Len(ops) > 0 THEN popAll(Append(out, Top(ops)), Pop(ops)) ELSE out

\* variant of toRPNToken: a ) without its ( discards the stacked operators
toRPNToken_unmatchedDiscards(out, ops, token) ==
  IF token.type = "NUMBER" \/ token.type = "IDENTIFIER"
  THEN [out |-> Append(out, token), ops |-> ops]
  ELSE IF token.type = "OPERATOR"
  THEN LET r == popOperators(out, ops, token)
       IN [out |-> r.out, ops |-> Append(r.ops, token)]
  ELSE IF token.type = "LPAREN"
  THEN [out |-> out, ops |-> Append(ops, token)]
  ELSE IF token.type = "RPAREN"
  THEN LET r == popToLParen(out, ops)
       IN IF Len(r.ops) > 0 THEN [out |-> r.out, ops |-> Pop(r.ops)]
          ELSE [out |-> out, ops |-> <<>>]
  ELSE [out |-> out, ops |-> ops]

\* the forEach callback of toRPN for one token
toRPNToken(out, ops, token) ==
  IF token.type = "NUMBER" \/ token.type = "IDENTIFIER"
  THEN [out |-> Append(out, token), ops |-> ops]
  ELSE IF token.type = "OPERATOR"
  THEN LET r == popOperators(out, ops, token)
       IN [out |-> r.out, ops |-> Append(r.ops, token)]
  ELSE IF token.type = "LPAREN"
  THEN [out |-> out, ops |-> Append(ops, token)]
  ELSE IF token.type = "RPAREN"
  THEN LET r == popToLParen(out, ops)
       IN [out |-> r.out, ops |-> IF Len(r.ops) > 0 THEN Pop(r.ops) ELSE r.ops]
  ELSE [out |-> out, ops |-> ops]

\* ---------------------------------------------------------------- resolver
\* s.trim()
RECURSIVE trim(_)
trim(s) ==
  IF Len(s) > 0 /\ IsSpace(s[1]) THEN trim(Tail(s))
  ELSE IF Len(s) > 0 /\ IsSpace(s[Len(s)]) THEN trim(SubSeq(s, 1, Len(s) - 1))
  ELSE s

\* s.startsWith(prefix)
startsWith(s, prefix) ==
  Len(s) >= Len(prefix) /\ SubSeq(s, 1, Len(prefix)) = prefix

\* map[key] = m
Put(map, key, m) ==
  [k \in DOMAIN map \cup {key} |-> IF k = key THEN m ELSE map[k]]

\* variant of resolveOne: the alias is registered only when it is free
resolveOne_aliasIfFree(map, m, idx) ==
  LET upper == toUpperCase(m.name)
      m1 == Put(map, upper, m)
      shortName == toUpperCase(trim(SubSeq(m.name, 8, Len(m.name))))
      m2 == IF startsWith(upper, <<"M", "A", "T", "R", "I", "Z", " ">>)
               /\ shortName /= <<>> /\ shortName \notin DOMAIN m1
            THEN Put(m1, shortName, m)
            ELSE m1
      charCode == <<UpperLetters[idx + 1]>>
  IN IF charCode \notin DOMAIN m2 THEN Put(m2, charCode, m) ELSE m2

\* variant of resolveOne: the positional letter is registered unconditionally
resolveOne_positionAlways(map, m, idx) ==
  LET upper == toUpperCase(m.name)
      m1 == Put(map, upper, m)
      shortName == toUpperCase(trim(SubSeq(m.name, 8, Len(m.name))))
      m2 == IF startsWith(upper, <<"M", "A", "T", "R", "I", "Z", " ">>)
               /\ shortName /= <<>>
            THEN Put(m1, shortName, m)
            ELSE m1
      charCode == <<UpperLetters[idx + 1]>>
  IN Put(m2, charCode, m)

\* the forEach callback that fills matrixMap, for the matrix m at index idx
\* (0-based)
resolveOne(map, m, idx) ==
  LET upper == toUpperCase(m.name)
      m1 == Put(map, upper, m)
      shortName == toUpperCase(trim(SubSeq(m.name, 8, Len(m.name))))
      m2 == IF startsWith(upper, <<"M", "A", "T", "R", "I", "Z", " ">>)
               /\ shortName /= <<>>
            THEN Put(m1, shortName, m)
            ELSE m1
      charCode == <<UpperLetters[idx + 1]>>
  IN IF charCode \notin DOMAIN m2 THEN Put(m2, charCode, m) ELSE m2

\* availableMatrices.forEach(...) from index idx on
RECURSIVE resolveFrom(_, _, _)
resolveFrom(map, ms, idx) ==
  IF idx >= Len(ms) THEN map
  ELSE resolveFrom(resolveOne(map, ms[idx + 1], idx), ms, idx + 1)

\* --------------------------------------------------------------- evaluator
EvalState(throw, cls, arg, w, stack, trace) ==
  [throw |-> throw, cls |-> cls, arg |-> arg, w |-> w,
   stack |-> stack, trace |-> trace]

\* variant of pushResult: the test of isInput is inverted
pushResult_inverted(w, map, stack, trace, val) ==
  LET isInput == val.t = "object" /\ \E k \in DOMAIN map : map[k].id = val.v.id
  IN EvalState("none", "", <<>>, w, Append(stack, val),
               IF val.t = "object" /\ isInput THEN Append(trace, val.v) ELSE trace)

\* pushResult(val)
pushResult(w, map, stack, trace, val) ==
  LET isInput == val.t = "object" /\ \E k \in DOMAIN map : map[k].id = val.v.id
  IN EvalState("none", "", <<>>, w, Append(stack, val),
               IF val.t = "object" /\ ~isInput THEN Append(trace, val.v) ELSE trace)

\* the result of a dispatch: the thrown error, or pushResult(resultOp)
pushOrThrow(r, map, stack, trace) ==
  IF r.throw /= "none" THEN EvalState(r.throw, r.cls, <<>>, r.w, stack, trace)
  ELSE pushResult(r.w, map, stack, trace, r.val)

\* variant of evalToken: the identifier is looked up as written
evalToken_asWritten(w, map, stack, trace, token) ==
  IF token.type = "NUMBER"
  THEN EvalState("none", "", <<>>, w, Append(stack, NumOp(parseFloat(token.value))), trace)
  ELSE IF token.type = "IDENTIFIER"
  THEN LET name == token.value
       IN IF name \notin DOMAIN map
          THEN EvalState("UnknownVariable", "ExpressionError", token.value,
                         w, stack, trace)
          ELSE EvalState("none", "", <<>>, w, Append(stack, MatOp(map[name])), trace)
  ELSE IF token.type = "OPERATOR"
  THEN IF token.value = <<"'">>
       THEN IF Len(stack) = 0 \/ Top(stack).t = "number"
            THEN EvalState("TransposeRequiresMatrix", "ExpressionError", <<>>,
                           w, IF Len(stack) = 0 THEN stack ELSE Pop(stack), trace)
            ELSE pushOrThrow(AsOperand(transposeMatrix(w, Top(stack).v)),
                             map, Pop(stack), trace)
       ELSE IF Len(stack) < 2
       THEN EvalState("MissingOperand", "ExpressionError", <<>>, w, <<>>, trace)
       ELSE LET b == Top(stack)
                a == Top(Pop(stack))
                rest == Pop(Pop(stack))
            IN IF token.value = <<"+">>
               THEN pushOrThrow(genericAdd(w, a, b), map, rest, trace)
               ELSE IF token.value = <<"-">>
               THEN pushOrThrow(genericSubtract(w, a, b), map, rest, trace)
               ELSE IF token.value = <<"*">>
               THEN pushOrThrow(genericMultiply(w, a, b), map, rest, trace)
               ELSE IF token.value = <<"^">>
               THEN IF a.t /= "object" \/ b.t /= "number"
                    THEN EvalState("PowerOperandTypeError", "ExpressionError",
                                   <<>>, w, rest, trace)
                    ELSE pushOrThrow(AsOperand(powerMatrix(w, a.v, b.v)),
                                     map, rest, trace)
               ELSE EvalState("UnknownOperator", "ExpressionError", token.value,
                              w, rest, trace)
  ELSE EvalState("none", "", <<>>, w, stack, trace)

\* variant of evalToken: a scalar raised to a scalar is computed as a number
evalToken_scalarPower(w, map, stack, trace, token) ==
  IF token.type = "NUMBER"
  THEN EvalState("none", "", <<>>, w, Append(stack, NumOp(parseFloat(token.value))), trace)
  ELSE IF token.type = "IDENTIFIER"
  THEN LET name == toUpperCase(token.value)
       IN IF name \notin DOMAIN map
          THEN EvalState("UnknownVariable", "ExpressionError", token.value,
                         w, stack, trace)
          ELSE EvalState("none", "", <<>>, w, Append(stack, MatOp(map[name])), trace)
  ELSE IF token.type = "OPERATOR"
  THEN IF token.value = <<"'">>
       THEN IF Len(stack) = 0 \/ Top(stack).t = "number"
            THEN EvalState("TransposeRequiresMatrix", "ExpressionError", <<>>,
                           w, IF Len(stack) = 0 THEN stack ELSE Pop(stack), trace)
            ELSE pushOrThrow(AsOperand(transposeMatrix(w, Top(stack).v)),
                             map, Pop(stack), trace)
       ELSE IF Len(stack) < 2
       THEN EvalState("MissingOperand", "ExpressionError", <<>>, w, <<>>, trace)
       ELSE LET b == Top(stack)
                a == Top(Pop(stack))
                rest == Pop(Pop(stack))
            IN IF token.value = <<"+">>
               THEN pushOrThrow(genericAdd(w, a, b), map, rest, trace)
               ELSE IF token.value = <<"-">>
               THEN pushOrThrow(genericSubtract(w, a, b), map, rest, trace)
               ELSE IF token.value = <<"*">>
               THEN pushOrThrow(genericMultiply(w, a, b), map, rest, trace)
               ELSE IF token.value = <<"^">>
               THEN IF a.t = "number" /\ b.t = "number"
                    THEN pushResult(w, map, rest, trace, NumOp(numMul(a.v, a.v)))
                    ELSE IF a.t /= "object" \/ b.t /= "number"
                    THEN EvalState("PowerOperandTypeError", "ExpressionError",
                                   <<>>, w, rest, trace)
                    ELSE pushOrThrow(AsOperand(powerMatrix(w, a.v, b.v)),
                                     map, rest, trace)
               ELSE EvalState("UnknownOperator", "ExpressionError", token.value,
                              w, rest, trace)
  ELSE EvalState("none", "", <<>>, w, stack, trace)

\* variant of evalToken: too few operands are reported as a malformed expression
evalToken_missingAsMalformed(w, map, stack, trace, token) ==
  IF token.type = "NUMBER"
  THEN EvalState("none", "", <<>>, w, Append(stack, NumOp(parseFloat(token.value))), trace)
  ELSE IF token.type = "IDENTIFIER"
  THEN LET name == toUpperCase(token.value)
       IN IF name \notin DOMAIN map
          THEN EvalState("UnknownVariable", "ExpressionError", token.value,
                         w, stack, trace)
          ELSE EvalState("none", "", <<>>, w, Append(stack, MatOp(map[name])), trace)
  ELSE IF token.type = "OPERATOR"
  THEN IF token.value = <<"'">>
       THEN IF Len(stack) = 0 \/ Top(stack).t = "number"
            THEN EvalState("TransposeRequiresMatrix", "ExpressionError", <<>>,
                           w, IF Len(stack) = 0 THEN stack ELSE Pop(stack), trace)
            ELSE pushOrThrow(AsOperand(transposeMatrix(w, Top(stack).v)),
                             map, Pop(stack), trace)
       ELSE IF Len(stack) < 2
       THEN EvalState("MalformedExpression", "ExpressionError", <<>>, w, <<>>, trace)
       ELSE LET b == Top(stack)
                a == Top(Pop(stack))
                rest == Pop(Pop(stack))
            IN IF token.value = <<"+">>
               THEN pushOrThrow(genericAdd(w, a, b), map, rest, trace)
               ELSE IF token.value = <<"-">>
               THEN pushOrThrow(genericSubtract(w, a, b), map, rest, trace)
               ELSE IF token.value = <<"*">>
               THEN pushOrThrow(genericMultiply(w, a, b), map, rest, trace)
               ELSE IF token.value = <<"^">>
               THEN IF a.t /= "object" \/ b.t /= "number"
                    THEN EvalState("PowerOperandTypeError", "ExpressionError",
                                   <<>>, w, rest, trace)
                    ELSE pushOrThrow(AsOperand(powerMatrix(w, a.v, b.v)),
                                     map, rest, trace)
               ELSE EvalState("UnknownOperator", "ExpressionError", token.value,
                              w, rest, trace)
  ELSE EvalState("none", "", <<>>, w, stack, trace)

\* variant of evalToken: an operator outside the switch leaves its left operand
evalToken_skipsUnknown(w, map, stack, trace, token) ==
  IF token.type = "NUMBER"
  THEN EvalState("none", "", <<>>, w, Append(stack, NumOp(parseFloat(token.value))), trace)
  ELSE IF token.type = "IDENTIFIER"
  THEN LET name == toUpperCase(token.value)
       IN IF name \notin DOMAIN map
          THEN EvalState("UnknownVariable", "ExpressionError", token.value,
                         w, stack, trace)
          ELSE EvalState("none", "", <<>>, w, Append(stack, MatOp(map[name])), trace)
  ELSE IF token.type = "OPERATOR"
  THEN IF token.value = <<"'">>
       THEN IF Len(stack) = 0 \/ Top(stack).t = "number"
            THEN EvalState("TransposeRequiresMatrix", "ExpressionError", <<>>,
                           w, IF Len(stack) = 0 THEN stack ELSE Pop(stack), trace)
            ELSE pushOrThrow(AsOperand(transposeMatrix(w, Top(stack).v)),
                             map, Pop(stack), trace)
       ELSE IF Len(stack) < 2
       THEN EvalState("MissingOperand", "ExpressionError", <<>>, w, <<>>, trace)
       ELSE LET b == Top(stack)
                a == Top(Pop(stack))
                rest == Pop(Pop(stack))
            IN IF token.value = <<"+">>
               THEN pushOrThrow(genericAdd(w, a, b), map, rest, trace)
               ELSE IF token.value = <<"-">>
               THEN pushOrThrow(genericSubtract(w, a, b), map, rest, trace)
               ELSE IF token.value = <<"*">>
               THEN pushOrThrow(genericMultiply(w, a, b), map, rest, trace)
               ELSE IF token.value = <<"^">>
               THEN IF a.t /= "object" \/ b.t /= "number"
                    THEN EvalState("PowerOperandTypeError", "ExpressionError",
                                   <<>>, w, rest, trace)
                    ELSE pushOrThrow(AsOperand(powerMatrix(w, a.v, b.v)),
                                     map, rest, trace)
               ELSE EvalState("none", "", <<>>, w, Append(rest, a), trace)
  ELSE EvalState("none", "", <<>>, w, stack, trace)

\* the body of the loop for (const token of rpn)
evalToken(w, map, stack, trace, token) ==
  IF token.type = "NUMBER"
  THEN EvalState("none", "", <<>>, w, Append(stack, NumOp(parseFloat(token.value))), trace)
  ELSE IF token.type = "IDENTIFIER"
  THEN LET name == toUpperCase(token.value)
       IN IF name \notin DOMAIN map
          THEN EvalState("UnknownVariable", "ExpressionError", token.value,
                         w, stack, trace)
          ELSE EvalState("none", "", <<>>, w, Append(stack, MatOp(map[name])), trace)
  ELSE IF token.type = "OPERATOR"
  THEN IF token.value = <<"'">>
       THEN IF Len(stack) = 0 \/ Top(stack).t = "number"
            THEN EvalState("TransposeRequiresMatrix", "ExpressionError", <<>>,
                           w, IF Len(stack) = 0 THEN stack ELSE Pop(stack), trace)
            ELSE pushOrThrow(AsOperand(transposeMatrix(w, Top(stack).v)),
                             map, Pop(stack), trace)
       ELSE IF Len(stack) < 2
       THEN EvalState("MissingOperand", "ExpressionError", <<>>, w, <<>>, trace)
       ELSE LET b == Top(stack)
                a == Top(Pop(stack))
                rest == Pop(Pop(stack))
            IN IF token.value = <<"+">>
               THEN pushOrThrow(genericAdd(w, a, b), map, rest, trace)
               ELSE IF token.value = <<"-">>
               THEN pushOrThrow(genericSubtract(w, a, b), map, rest, trace)
               ELSE IF token.value = <<"*">>
               THEN pushOrThrow(genericMultiply(w, a, b), map, rest, trace)
               ELSE IF token.value = <<"^">>
               THEN IF a.t /= "object" \/ b.t /= "number"
                    THEN EvalState("PowerOperandTypeError", "ExpressionError",
                                   <<>>, w, rest, trace)
                    ELSE pushOrThrow(AsOperand(powerMatrix(w, a.v, b.v)),
                                     map, rest, trace)
               ELSE EvalState("UnknownOperator", "ExpressionError", token.value,
                              w, rest, trace)
  ELSE EvalState("none", "", <<>>, w, stack, trace)

\* variant of finalCheck: the type of the final value is not tested
finalCheck_anyValue(stack) ==
  IF Len(stack) /= 1 THEN "MalformedExpression" ELSE "none"

\* variant of finalCheck: the type of the first value is tested first
finalCheck_typeFirst(stack) ==
  IF Len(stack) >= 1 /\ stack[1].t = "number" THEN "FinalResultMustBeMatrix"
  ELSE IF Len(stack) /= 1 THEN "MalformedExpression"
  ELSE "none"

\* the two checks after the loop
finalCheck(stack) ==
  IF Len(stack) /= 1 THEN "MalformedExpression"
  ELSE IF stack[1].t = "number" THEN "FinalResultMustBeMatrix"
  ELSE "none"

\* ------------------------------------------------------------------ inputs
\* Cell fillings of the input matrices, cells numbered row by row from 1:
\* filling 1 is 1, 2, 3, ...; filling 2 is 5, 6, 7, ...; filling 3 is
\* 0.00001, 0.003, 0.009, 0.015, ... (a cell of five decimals, products that
\* need rounding); the others are multiples of 0.5 of both signs.
CellValue(seed, idx) ==
  IF seed = 1 THEN Num(idx)
  ELSE IF seed = 2 THEN Num(4 + idx)
  ELSE IF seed = 3 THEN (IF idx = 1 THEN Dec(1, 5) ELSE Dec((2 * idx - 3) * 3, 3))
  ELSE Dec((((seed * idx) % 7) - 3) * 5, 1)

\* the name addMatrix gives to the k-th matrix of the application
MatrixName(k) == <<"M", "a", "t", "r", "i", "z", " ", UpperLetters[((k - 1) % 26) + 1]>>

InputSpec(rows, cols, seed, name) ==
  [rows |-> rows, cols |-> cols, seed |-> seed, name |-> name]

\* the caller's matrices for a list of input descriptions: each has its own
\* id, its own outer array and its own row arrays
RECURSIVE buildInputs(_, _, _, _)
buildInputs(specs, k, h, ms) ==
  IF k > Len(specs) THEN [heap |-> h, ms |-> ms]
  ELSE LET sp == specs[k]
           rowArrays == [i \in 1..sp.rows |->
                           [j \in 1..sp.cols |->
                              CellValue(sp.seed, (i - 1) * sp.cols + j)]]
           outer == [i \in 1..sp.rows |-> Len(h) + i]
       IN buildInputs(specs, k + 1, h \o rowArrays \o <<outer>>,
                      Append(ms, Matrix(k, sp.name, sp.rows, sp.cols,
                                        Len(h) + sp.rows + 1, <<>>)))

\* expressions the properties are about
Catalog ==
  { <<"A", "+", "B">>, <<"A", "-", "B">>, <<"A", "^", "3">>, <<"A", "^", "2">>,
    <<"A", "^", "1">>, <<"A", "'", "+", "A", "'">>, <<"A">>, <<"(", "A", ")">>,
    <<"A", "'", "'">>, <<"A", "'">>, <<"A", "*", "B">>, <<"A", "*", "A">>,
    <<"2", "*", "A">>, <<"A", "*", "2">>, <<"2", ".", "5", "*", "A">>,
    <<"3", "*", "A", "'", "-", "B", "^", "2">>,
    <<"A", "*", "B", "*", "A">>, <<"A", "-", "B", "-", "A">>,
    <<"A", "+", "B", "*", "A">>, <<"(", "A", "+", "B", ")", "*", "A">>,
    <<"A", "*", "B", "'">>, <<"A", "^", "(", "1", "+", "1", ")">>,
    <<"(", "A", "+", "B">>, <<"A", "+", "B", ")">>,
    <<"A", "/", "B">>, <<"A", ",", "B">>, <<"A", "^", "2", "^", "2">>,
    <<"A", "^", "0">>, <<"A", "^", "2", ".", "5">>, <<"A", "^", "B">>,
    <<"2", "+", "A">>, <<"A", "-", "2">>, <<"3", "*", "2">>, <<"A", " ", "B">>,
    <<"a", "+", "b">>, <<"A", "+", "C">>, <<" ", " ">>, <<>>,
    <<"1", "+", "2">>, <<"7">>, <<"2", "^", "3">>, <<"2", "^", "A">>,
    <<"A", "+", "2">>, <<"2", "-", "A">>, <<"A", "*", "2", ".", "5">>,
    <<"A", "^", "(", "1", "-", "2", ")">>, <<"A", "*", "B", "*", "C">>,
    <<" ", "\t", "\n">>, <<"-", "A">>, <<"A", "-">>, <<"-">>,
    <<"A", "-", "B", "-", "C">>, <<"A", "+", "B", "*", "C">>,
    <<"(", "A", "+", "B", ")", "*", "C">>, <<"A", "'", "^", "2">>,
    <<"A", "*", "B", "'", "^", "2">>, <<"A", "^", "1", "^", "1">>,
    <<"A", "^", "3", "^", "2">> }

\* the characters of the exhaustively enumerated expressions
Alphabet == {"2", ".", "A", "b", "+", "*", "/", "^", "'", "(", ")", ",", " ", "#"}

Shapes == (1..MaxDim) \X (1..MaxDim)

\* a list of n matrices: the shapes sh of the first two repeat along the list,
\* the fillings rotate along it starting from s
AlgebraCase(x, n, sh, s) ==
  [expr |-> x,
   specs |-> [k \in 1..n |->
                LET shape == sh[((k - 1) % Len(sh)) + 1]
                IN InputSpec(shape[1], shape[2],
                             ((s + k - 2) % MaxSeed) + 1, MatrixName(k))]]

\* an expression on two 2 x 2 matrices
LexCase(x) ==
  [expr |-> x,
   specs |-> <<InputSpec(2, 2, 1, MatrixName(1)),
               InputSpec(2, 2, 2, MatrixName(2))>>]

\* names a caller may give to a matrix: the application's names in several
\* letter cases, bare letters, a name whose remainder needs trimming, a name
\* with an empty remainder, the name of a promoted result, a two-letter alias
NamePool ==
  { <<"M", "a", "t", "r", "i", "z", " ", "A">>,
    <<"m", "a", "t", "r", "i", "z", " ", "b">>,
    <<"M", "A", "T", "R", "I", "Z", " ", "B">>,
    <<"M", "a", "t", "r", "i", "z", " ", " ", "A", " ">>,
    <<"M", "a", "t", "r", "i", "z", " ">>,
    <<"M", "a", "t", "r", "i", "z", " ", "A", "b">>,
    <<"A">>, <<"b">>, <<"R", "2">> }

\* the expressions evaluated on the lists of named matrices
NameExprs == { <<"A">>, <<"a">>, <<"B">>, <<"b">>, <<"A", "b">>, <<"C">>, <<"R">> }

\* an expression on a list of 1 x 1 matrices with the given names, the k-th
\* filled with filling k
ResolverCase(x, names) ==
  [expr |-> x,
   specs |-> [k \in 1..Len(names) |->
                InputSpec(1, 1, ((k - 1) % MaxSeed) + 1, names[k])]]

\* ------------------------------------------------------------------- state
VARIABLES
  expression,         \* argument of evaluateExpression
  availableMatrices,  \* argument of evaluateExpression (the caller's list)
  heap,               \* the arrays of numbers
  nextId,             \* source of fresh ids
  pc,                 \* position in evaluateExpression
  matrixMap,          \* local of evaluateExpression
  lastIndex,          \* regex.lastIndex + 1 in tokenize
  tokens,             \* local of tokenize, then of evaluateExpression
  index,              \* forEach index + 1 in toRPN
  outputQueue,        \* local of toRPN
  operatorStack,      \* local of toRPN
  rpn,                \* local of evaluateExpression
  position,           \* position of the for-of loop in rpn
  stack,              \* local of evaluateExpression
  executionTrace,     \* local of evaluateExpression
  outcome,            \* what the call handed to its caller
  matrices,           \* App state: the input matrices
  selectedIds,        \* App state: the ids selected, in order of selection
  results,            \* App state: the results displayed
  autoAddResult,      \* App state: promote the final result to an input
  error,              \* App state: the message displayed, "null" for none
  lastOperation,      \* App state: the label of the last operation
  updates             \* the state updates the running handler has queued

\* the state of the App component and its queue of updates
appVars == <<matrices, selectedIds, results, autoAddResult, error, lastOperation,
             updates>>

vars == <<expression, availableMatrices, heap, nextId, pc, matrixMap, lastIndex,
          tokens, index, outputQueue, operatorStack, rpn, position, stack,
          executionTrace, outcome, matrices, selectedIds, results, autoAddResult,
          error, lastOperation, updates>>

Pending == [status |-> "pending", kind |-> "", cls |-> "", arg |-> <<>>, trace |-> <<>>]

Returned(trace) ==
  [status |-> "returned", kind |-> "", cls |-> "", arg |-> <<>>, trace |-> trace]

Threw(kind, cls, arg) ==
  [status |-> "threw", kind |-> kind, cls |-> cls, arg |-> arg, trace |-> <<>>]

InitCase(c) ==
  \E b \in {buildInputs(c.specs, 1, <<>>, <<>>)} :
     /\ expression = c.expr
     /\ availableMatrices = b.ms
     /\ heap = b.heap
     /\ nextId = Len(b.ms) + 1
     /\ pc = "entry"
     /\ matrixMap = <<>>
     /\ lastIndex = 1
     /\ tokens = <<>>
     /\ index = 1
     /\ outputQueue = <<>>
     /\ operatorStack = <<>>
     /\ rpn = <<>>
     /\ position = 1
     /\ stack = <<>>
     /\ executionTrace = <<>>
     /\ outcome = Pending
     \* a caller other than the App component: its state stays as it is
     /\ matrices = b.ms
     /\ selectedIds = <<>>
     /\ results = <<>>
     /\ autoAddResult = FALSE
     /\ error = "null"
     /\ lastOperation = <<>>
     /\ updates = <<>>

\* the catalogue on lists of 1..MaxMatrices matrices of all shapes, every
\* expression of at most MaxExprLen characters over Alphabet, and the
\* identifiers on lists of 1..MaxMatrices matrices named from NamePool
Init ==
  \/ \E n \in 1..MaxMatrices :
       \E x \in Catalog, sh \in [1..(IF n < 2 THEN n ELSE 2) -> Shapes],
          s \in 1..MaxSeed :
         InitCase(AlgebraCase(x, n, sh, s))
  \/ \E n \in 0..MaxExprLen :
       \E x \in [1..n -> Alphabet] : InitCase(LexCase(x))
  \/ \E n \in 1..MaxMatrices :
       \E x \in NameExprs, names \in [1..n -> NamePool] :
         InitCase(ResolverCase(x, names))

\* variant of CheckEmpty: the expression is tested without trim
CheckEmpty_noTrim ==
  /\ pc = "entry"
  /\ IF expression = <<>>
     THEN /\ pc' = "done"
          /\ outcome' = Threw("EmptyExpression", "ExpressionError", <<>>)
     ELSE /\ pc' = "resolve"
          /\ outcome' = outcome
  /\ UNCHANGED <<expression, availableMatrices, heap, nextId, matrixMap, lastIndex,
                 tokens, index, outputQueue, operatorStack, rpn, position, stack,
                 executionTrace>>
  /\ UNCHANGED appVars

\* if (!expression.trim()) throw ...
CheckEmpty ==
  /\ pc = "entry"
  /\ IF trim(expression) = <<>>
     THEN /\ pc' = "done"
          /\ outcome' = Threw("EmptyExpression", "ExpressionError", <<>>)
     ELSE /\ pc' = "resolve"
          /\ outcome' = outcome
  /\ UNCHANGED <<expression, availableMatrices, heap, nextId, matrixMap, lastIndex,
                 tokens, index, outputQueue, operatorStack, rpn, position, stack,
                 executionTrace>>
  /\ UNCHANGED appVars

\* availableMatrices.forEach(...): matrixMap is filled
BuildMatrixMap ==
  /\ pc = "resolve"
  /\ matrixMap' = resolveFrom(<<>>, availableMatrices, 0)
  /\ pc' = "tokenize"
  /\ UNCHANGED <<expression, availableMatrices, heap, nextId, lastIndex,
                 tokens, index, outputQueue, operatorStack, rpn, position, stack,
                 executionTrace, outcome>>
  /\ UNCHANGED appVars

\* one regex.exec of tokenize: a token is pushed, or tokenize returns
TokenizeStep ==
  /\ pc = "tokenize"
  /\ \E match \in {regexExec(expression, lastIndex)} :
       IF match.found
       THEN /\ tokens' = tokenizePush(tokens, expression, match)
            /\ lastIndex' = match.last + 1
            /\ pc' = pc
       ELSE /\ tokens' = tokens
            /\ lastIndex' = 1
            /\ pc' = "toRPN"
  /\ UNCHANGED <<expression, availableMatrices, heap, nextId, matrixMap,
                 index, outputQueue, operatorStack, rpn, position, stack,
                 executionTrace, outcome>>
  /\ UNCHANGED appVars

\* one call of the forEach callback of toRPN
ToRPNStep ==
  /\ pc = "toRPN"
  /\ index <= Len(tokens)
  /\ \E r \in {toRPNToken(outputQueue, operatorStack, tokens[index])} :
       /\ outputQueue' = r.out
       /\ operatorStack' = r.ops
  /\ index' = index + 1
  /\ UNCHANGED <<expression, availableMatrices, heap, nextId, pc, matrixMap,
                 lastIndex, tokens, rpn, position, stack, executionTrace, outcome>>
  /\ UNCHANGED appVars

\* the final loop of toRPN and its return
ToRPNFinish ==
  /\ pc = "toRPN"
  /\ index > Len(tokens)
  /\ outputQueue' = popAll(outputQueue, operatorStack)
  /\ operatorStack' = <<>>
  /\ rpn' = outputQueue'
  /\ pc' = "eval"
  /\ UNCHANGED <<expression, availableMatrices, heap, nextId, matrixMap,
                 lastIndex, tokens, index, position, stack, executionTrace, outcome>>
  /\ UNCHANGED appVars

\* one iteration of for (const token of rpn)
EvalStep ==
  /\ pc = "eval"
  /\ position <= Len(rpn)
  /\ \E r \in {evalToken(World(heap, nextId), matrixMap, stack, executionTrace,
                          rpn[position])} :
       /\ heap' = r.w.heap
       /\ nextId' = r.w.nextId
       /\ stack' = r.stack
       /\ executionTrace' = r.trace
       /\ IF r.throw /= "none"
          THEN /\ pc' = "done"
               /\ outcome' = Threw(r.throw, r.cls, r.arg)
               /\ position' = position
          ELSE /\ pc' = pc
               /\ outcome' = outcome
               /\ position' = position + 1
  /\ UNCHANGED <<expression, availableMatrices, matrixMap, lastIndex, tokens,
                 index, outputQueue, operatorStack, rpn>>
  /\ UNCHANGED appVars

\* the checks after the loop and the return of the trace
EvalFinish ==
  /\ pc = "eval"
  /\ position > Len(rpn)
  /\ pc' = "done"
  /\ outcome' = IF finalCheck(stack) /= "none"
                THEN Threw(finalCheck(stack), "ExpressionError", <<>>)
                ELSE Returned(executionTrace)
  /\ UNCHANGED <<expression, availableMatrices, heap, nextId, matrixMap, lastIndex,
                 tokens, index, outputQueue, operatorStack, rpn, position, stack,
                 executionTrace>>
  /\ UNCHANGED appVars

Next ==
  \/ CheckEmpty
  \/ BuildMatrixMap
  \/ TokenizeStep
  \/ ToRPNStep
  \/ ToRPNFinish
  \/ EvalStep
  \/ EvalFinish

Spec == Init /\ [][Next]_vars

\* ------------------------------------------------------- the App component
\* A state update queued by a set... call; React applies the queue after the
\* handler has returned.
Update(var, val) == [var |-> var, val |-> val]

\* expressions solved from the component
AppExprs ==
  { <<"A", "+", "B">>, <<"A", "'", "+", "A", "'">>, <<"A">>, <<"A", "*", "B">>,
    <<"A", "^", "1">>, <<"A", "+", "Z">>, <<"7">>, <<" ", " ">> }

\* the component with n square matrices of dimension d, k results of an
\* earlier calculation on display and the ids of sel selected
AppCase(x, n, d, k, sel, auto) ==
  LET b == buildInputs([i \in 1..(n + k) |->
                          IF i <= n THEN InputSpec(d, d, ((i - 1) % MaxSeed) + 1,
                                                   MatrixName(i))
                          ELSE InputSpec(1, 1, 1, <<"R">>)],
                       1, <<>>, <<>>)
  IN /\ expression = x
     /\ availableMatrices = SubSeq(b.ms, 1, n)
     /\ heap = b.heap
     /\ nextId = Len(b.ms) + 1
     /\ pc = "handler"
     /\ matrixMap = <<>>
     /\ lastIndex = 1
     /\ tokens = <<>>
     /\ index = 1
     /\ outputQueue = <<>>
     /\ operatorStack = <<>>
     /\ rpn = <<>>
     /\ position = 1
     /\ stack = <<>>
     /\ executionTrace = <<>>
     /\ outcome = Pending
     /\ matrices = SubSeq(b.ms, 1, n)
     /\ selectedIds = sel
     /\ results = SubSeq(b.ms, n + 1, n + k)
     /\ autoAddResult = auto
     /\ error = "null"
     /\ lastOperation = <<>>
     /\ updates = <<>>

AppInit ==
  \E x \in AppExprs, n \in 1..MaxMatrices, d \in 1..MaxDim, k \in 0..2,
     sel \in {<<>>, <<1>>}, auto \in BOOLEAN :
    AppCase(x, n, d, k, sel, auto)

\* handleSolveExpression up to the call of evaluateExpression(expression,
\* matrices)
SolveBegin ==
  /\ pc = "handler"
  /\ updates' = updates \o <<Update("error", "null"), Update("results", <<>>)>>
  /\ pc' = IF trim(expression) = <<>> THEN "render" ELSE "entry"
  /\ UNCHANGED <<expression, availableMatrices, heap, nextId, matrixMap, lastIndex,
                 tokens, index, outputQueue, operatorStack, rpn, position, stack,
                 executionTrace, outcome, matrices, selectedIds, results,
                 autoAddResult, error, lastOperation>>

\* promoteResultToInput(resultMatrix): the updates it queues; matrices,
\* selectedIds and results are the values of the render the handler runs in
promoteResultToInput(id, resultMatrix) ==
  LET newMatrix == [resultMatrix EXCEPT !.id = id,
                                        !.name = <<"R">> \o IntStr(Len(matrices) + 1)]
  IN << Update("matrices", Append(matrices, newMatrix)),
        Update("selectedIds", Append(selectedIds, newMatrix.id)),
        Update("results", SelectSeq(results, LAMBDA r : r.id /= resultMatrix.id)) >>

\* handleSolveExpression from the return of evaluateExpression on, or its
\* catch clause
SolveEnd ==
  /\ pc = "done"
  /\ IF outcome.status = "returned"
     THEN LET promote == autoAddResult /\ Len(outcome.trace) > 0
          IN /\ updates' =
                  updates
                    \o << Update("results", outcome.trace),
                          Update("lastOperation", <<"Expresion: ">> \o expression) >>
                    \o (IF promote
                        THEN promoteResultToInput(nextId,
                                                  outcome.trace[Len(outcome.trace)])
                        ELSE <<>>)
             /\ nextId' = IF promote THEN nextId + 1 ELSE nextId
     ELSE /\ updates' = Append(updates, Update("error", outcome.kind))
          /\ nextId' = nextId
  /\ pc' = "render"
  /\ UNCHANGED <<expression, availableMatrices, heap, matrixMap, lastIndex,
                 tokens, index, outputQueue, operatorStack, rpn, position, stack,
                 executionTrace, outcome, matrices, selectedIds, results,
                 autoAddResult, error, lastOperation>>

\* the value of a piece of state once the updates from the k-th on are applied
RECURSIVE Applied(_, _, _)
Applied(var, current, k) ==
  IF k > Len(updates) THEN current
  ELSE Applied(var, IF updates[k].var = var THEN updates[k].val ELSE current, k + 1)

\* React applies the queued updates in order and renders
Render ==
  /\ pc = "render"
  /\ matrices' = Applied("matrices", matrices, 1)
  /\ selectedIds' = Applied("selectedIds", selectedIds, 1)
  /\ results' = Applied("results", results, 1)
  /\ error' = Applied("error", error, 1)
  /\ lastOperation' = Applied("lastOperation", lastOperation, 1)
  /\ updates' = <<>>
  /\ pc' = "idle"
  /\ UNCHANGED <<expression, availableMatrices, heap, nextId, matrixMap, lastIndex,
                 tokens, index, outputQueue, operatorStack, rpn, position, stack,
                 executionTrace, outcome, autoAddResult>>

AppNext ==
  \/ SolveBegin
  \/ CheckEmpty
  \/ BuildMatrixMap
  \/ TokenizeStep
  \/ ToRPNStep
  \/ ToRPNFinish
  \/ EvalStep
  \/ EvalFinish
  \/ SolveEnd
  \/ Render

AppSpec == AppInit /\ [][AppNext]_vars

\* ============================================================== properties
\* The matrices the identifiers A and B denote in every enumerated case.
MatA == availableMatrices[1]

MatB == availableMatrices[2]

Lit(rows) == [i \in 1..Len(rows) |-> [j \in 1..Len(rows[i]) |-> Num(rows[i][j])]]

ExprAplusB == <<"A", "+", "B">>

ExprAminusB == <<"A", "-", "B">>

ExprAcubed == <<"A", "^", "3">>

ExprSample == <<"3", "*", "A", "'", "-", "B", "^", "2">>

SameShape(X, Y) == X.rows = Y.rows /\ X.cols = Y.cols

Finished == pc = "done"

Succeeded == pc = "done" /\ outcome.status = "returned"

Failed(kind) == pc = "done" /\ outcome.status = "threw" /\ outcome.kind = kind

\* exact row-by-column product of two grids
RECURSIVE RefDot(_, _, _, _, _)
RefDot(X, Y, i, j, k) ==
  IF k = 0 THEN Num(0)
  ELSE numAdd(RefDot(X, Y, i, j, k - 1), numMul(X[i][k], Y[k][j]))

RefExactProduct(X, Y) ==
  [i \in 1..Len(X) |-> [j \in 1..Len(Y[1]) |-> RefDot(X, Y, i, j, Len(Y))]]

\* row-by-column product with every cell rounded to 4 decimals
RefRoundedProduct(X, Y) ==
  [i \in 1..Len(X) |-> [j \in 1..Len(Y[1]) |-> toFixed4(RefDot(X, Y, i, j, Len(Y)))]]

\* ---- C1
\* C1: for two available matrices A and B of the same shape, "A+B" returns
\* a trace of exactly one matrix with A's shape whose cell (i,j) is
\* A[i][j] + B[i][j]; [[1,2],[3,4]] + [[5,6],[7,8]] gives [[6,8],[10,12]].
C1_AddTrace ==
  (Finished /\ expression = ExprAplusB /\ Len(availableMatrices) >= 2
     /\ SameShape(MatA, MatB))
  => /\ outcome.status = "returned"
     /\ Len(outcome.trace) = 1
     /\ SameShape(outcome.trace[1], MatA)
     /\ Grid(heap, outcome.trace[1])
          = [i \in 1..MatA.rows |->
               [j \in 1..MatA.cols |->
                  numAdd(Get(heap, MatA, i, j), Get(heap, MatB, i, j))]]
     /\ (Grid(heap, MatA) = Lit(<<<<1, 2>>, <<3, 4>>>>)
           /\ Grid(heap, MatB) = Lit(<<<<5, 6>>, <<7, 8>>>>)
         => Grid(heap, outcome.trace[1]) = Lit(<<<<6, 8>>, <<10, 12>>>>))

C1_Witness ==
  /\ Succeeded /\ expression = ExprAplusB
  /\ Grid(heap, MatA) = Lit(<<<<1, 2>>, <<3, 4>>>>)
  /\ Len(outcome.trace) = 1
  /\ Grid(heap, outcome.trace[1]) = Lit(<<<<6, 8>>, <<10, 12>>>>)

\* ---- C2
\* C2 as stated: for square A, "A^3" returns a trace of exactly two
\* matrices, A.A and then (A.A).A.
C2_TwoEntries ==
  (Finished /\ expression = ExprAcubed /\ Len(availableMatrices) >= 1
     /\ MatA.rows = MatA.cols)
  => /\ outcome.status = "returned"
     /\ Len(outcome.trace) = 2
     /\ Grid(heap, outcome.trace[1])
          = RefExactProduct(Grid(heap, MatA), Grid(heap, MatA))
     /\ Grid(heap, outcome.trace[2])
          = RefExactProduct(RefExactProduct(Grid(heap, MatA), Grid(heap, MatA)),
                            Grid(heap, MatA))

\* C2 amended: for square A, "A^3" returns a trace of exactly one matrix,
\* A^3, whose data is (A.A).A with the cells of each of the two products
\* rounded to 4 decimals; A^2 is not an entry of the trace.
C2_OneEntry ==
  (Finished /\ expression = ExprAcubed /\ Len(availableMatrices) >= 1
     /\ MatA.rows = MatA.cols)
  => /\ outcome.status = "returned"
     /\ Len(outcome.trace) = 1
     /\ SameShape(outcome.trace[1], MatA)
     /\ outcome.trace[1].name = MatA.name \o <<"^", "3">>
     /\ Grid(heap, outcome.trace[1])
          = RefRoundedProduct(RefRoundedProduct(Grid(heap, MatA), Grid(heap, MatA)),
                              Grid(heap, MatA))

C2_Witness ==
  /\ Succeeded /\ expression = ExprAcubed
  /\ Grid(heap, MatA) = Lit(<<<<1, 2>>, <<3, 4>>>>)
  /\ Len(outcome.trace) = 1
  /\ Grid(heap, outcome.trace[1]) = Lit(<<<<37, 54>>, <<81, 118>>>>)

\* ---- C3
InputIds == {availableMatrices[k].id : k \in 1..Len(availableMatrices)}

\* an operator application that produced a matrix appends exactly that
\* matrix to the trace; every other step of the evaluation leaves the trace
\* as it is
C3_Step ==
  (pc = "eval" /\ pc' = "eval" /\ position' = position + 1)
  => IF rpn[position].type = "OPERATOR" /\ Top(stack').t = "object"
     THEN executionTrace' = Append(executionTrace, Top(stack').v)
     ELSE executionTrace' = executionTrace

C3_Returned ==
  Succeeded
  => /\ outcome.trace = executionTrace
     /\ \A k \in 1..Len(outcome.trace) : outcome.trace[k].id \notin InputIds
     /\ \A k, l \in 1..Len(outcome.trace) :
          k /= l => outcome.trace[k].id /= outcome.trace[l].id
     /\ (expression = <<"A", "'", "+", "A", "'">> => Len(outcome.trace) = 3)

\* C3: on success the trace is exactly the matrices produced by operator
\* applications in the order of the RPN evaluation, no entry has the id of
\* an input, the ids are pairwise distinct, and "A'+A'" gives three entries.
C3_TraceIsOperatorResults == [][C3_Step]_vars /\ []C3_Returned

C3_Witness ==
  /\ Succeeded /\ expression = <<"A", "'", "+", "A", "'">>
  /\ Len(outcome.trace) = 3
  /\ Grid(heap, outcome.trace[1]) = Grid(heap, outcome.trace[2])
  /\ outcome.trace[1].id /= outcome.trace[2].id

\* ---- C4
OperatorApplied == \E k \in 1..Len(rpn) : rpn[k].type = "OPERATOR"

BareIdentifier ==
  /\ Cardinality({k \in 1..Len(tokens) : tokens[k].type = "IDENTIFIER"}) = 1
  /\ \A k \in 1..Len(tokens) :
       tokens[k].type \in {"IDENTIFIER", "LPAREN", "RPAREN"}

\* C4: on success the trace is empty iff no operator was applied (the
\* expression is a single bare identifier); otherwise its last element is
\* the single value left on the stack.
C4_EmptyIffBare ==
  Succeeded
  => /\ (outcome.trace = <<>>) <=> ~OperatorApplied
     /\ (outcome.trace = <<>>) <=> BareIdentifier
     /\ outcome.trace /= <<>>
          => /\ Len(stack) = 1
             /\ stack[1].t = "object"
             /\ outcome.trace[Len(outcome.trace)] = stack[1].v

C4_Witness ==
  /\ Succeeded /\ expression = <<"A", "^", "(", "1", "+", "1", ")">>
  /\ Len(outcome.trace) = 1
  /\ outcome.trace[1] = stack[1].v

\* ---- C5
\* C5: for two available matrices whose rows or cols differ, "A+B" and
\* "A-B" fail with DimensionMismatch and return no trace.
C5_ShapeMismatch ==
  (Finished /\ expression \in {ExprAplusB, ExprAminusB}
     /\ Len(availableMatrices) >= 2 /\ ~SameShape(MatA, MatB))
  => /\ outcome.status = "threw"
     /\ outcome.kind = "DimensionMismatch"
     /\ outcome.trace = <<>>

C5_Witness ==
  /\ Failed("DimensionMismatch") /\ expression = ExprAminusB
  /\ MatA.rows = 2 /\ MatA.cols = 2 /\ MatB.rows = 1 /\ MatB.cols = 2

\* ---- C6
\* C6: for an available matrix A of any shape, "A''" returns a trace of two
\* matrices and the last has A's rows, cols and exactly A's data.
C6_DoubleTranspose ==
  (Finished /\ expression = <<"A", "'", "'">> /\ Len(availableMatrices) >= 1)
  => /\ outcome.status = "returned"
     /\ Len(outcome.trace) = 2
     /\ SameShape(outcome.trace[2], MatA)
     /\ Grid(heap, outcome.trace[2]) = Grid(heap, MatA)

C6_Witness ==
  /\ Succeeded /\ expression = <<"A", "'", "'">>
  /\ MatA.rows = 1 /\ MatA.cols = 2
  /\ Grid(heap, MatA) = <<<<Dec(1, 5), Dec(3, 3)>>>>
  /\ outcome.trace[1].rows = 2 /\ outcome.trace[1].cols = 1
  /\ Grid(heap, outcome.trace[2]) = Grid(heap, MatA)

\* ---- C7
\* no step of a call changes the caller's list, an input matrix's fields,
\* its outer array, or a cell of its rows
C7_Step ==
  /\ availableMatrices' = availableMatrices
  /\ \A k \in 1..Len(availableMatrices) :
       /\ heap'[availableMatrices[k].data] = heap[availableMatrices[k].data]
       /\ Grid(heap', availableMatrices[k]) = Grid(heap, availableMatrices[k])

\* C7: a call leaves the caller's availableMatrices and every input
\* matrix's id, name, rows, cols and data cells unchanged, whether it returns
\* or fails; a failed call hands over nothing of what it computed.
C7_InputsUntouched ==
  [][C7_Step]_vars /\ [](pc = "done" /\ outcome.status = "threw" => outcome.trace = <<>>)

C7_Witness ==
  /\ pc = "done" /\ outcome.status = "threw"
  /\ Len(executionTrace) >= 2
  /\ Grid(heap, MatA) = Lit(<<<<1, 2>>, <<3, 4>>>>)

\* ---- C8
Taxonomy ==
  {"EmptyExpression", "UnknownVariable", "MissingOperand",
   "TransposeRequiresMatrix", "ScalarMatrixAdditionUnsupported",
   "DimensionMismatch", "InvalidExponent", "PowerOperandTypeError",
   "UnknownOperator", "MalformedExpression", "FinalResultMustBeMatrix"}

C8_Outcome ==
  /\ pc \in {"entry", "resolve", "tokenize", "toRPN", "eval", "done"}
  /\ pc /= "done" => outcome.status = "pending"
  /\ pc = "done"
       => \/ outcome.status = "returned"
          \/ outcome.status = "threw" /\ outcome.kind \in Taxonomy

\* the number of steps a call can still take is bounded by Remaining, which
\* every step decreases
Remaining ==
  LET L == Len(expression) + 1
  IN IF pc = "entry" THEN 3 * L + 3
     ELSE IF pc = "resolve" THEN 3 * L + 2
     ELSE IF pc = "tokenize" THEN 2 * L + 1 + (L + 1 - lastIndex)
     ELSE IF pc = "toRPN" THEN L + (L + 1 - index)
     ELSE IF pc = "eval" THEN L + 1 - position
     ELSE 0

C8_Progress == Remaining' < Remaining /\ Remaining' >= 0

\* C8: every call terminates (every step brings it closer to its end, and
\* it stops nowhere but at its end), and its outcome is a returned trace or
\* a failure of one of the eleven kinds of the taxonomy.
C8_TerminatesInTaxonomy == []C8_Outcome /\ [][C8_Progress]_vars

C8_Witness ==
  /\ Failed("InvalidExponent") /\ expression = <<"A", "^", "0">>
  /\ MatA.rows = MatA.cols

\* ---- C9
DigitSet == {Digits[d] : d \in 1..10}

LetterSet == {LowerLetters[k] : k \in 1..26} \cup {UpperLetters[k] : k \in 1..26}

\* the end of the longest run of characters of S that starts at k
RefRunEnd(expr, k, S) ==
  CHOOSE q \in k..Len(expr) :
    /\ \A p \in k..q : expr[p] \in S
    /\ q = Len(expr) \/ expr[q + 1] \notin S

\* the tokens of expr from position k on, ops being the operator characters
RECURSIVE RefTokens(_, _, _)
RefTokens(expr, k, ops) ==
  IF k > Len(expr) THEN <<>>
  ELSE IF expr[k] \in DigitSet
  THEN LET q == RefRunEnd(expr, k, DigitSet)
           r == IF q + 2 <= Len(expr) /\ expr[q + 1] = "." /\ expr[q + 2] \in DigitSet
                THEN RefRunEnd(expr, q + 2, DigitSet)
                ELSE q
       IN <<[type |-> "NUMBER", value |-> SubSeq(expr, k, r)]>>
            \o RefTokens(expr, r + 1, ops)
  ELSE IF expr[k] \in LetterSet
  THEN LET q == RefRunEnd(expr, k, LetterSet)
       IN <<[type |-> "IDENTIFIER", value |-> SubSeq(expr, k, q)]>>
            \o RefTokens(expr, q + 1, ops)
  ELSE IF expr[k] \in ops
  THEN <<[type |-> "OPERATOR", value |-> <<expr[k]>>]>> \o RefTokens(expr, k + 1, ops)
  ELSE IF expr[k] = "("
  THEN <<[type |-> "LPAREN", value |-> <<"(">>]>> \o RefTokens(expr, k + 1, ops)
  ELSE IF expr[k] = ")"
  THEN <<[type |-> "RPAREN", value |-> <<")">>]>> \o RefTokens(expr, k + 1, ops)
  ELSE RefTokens(expr, k + 1, ops)

SampleTokens ==
  << [type |-> "NUMBER", value |-> <<"3">>],
     [type |-> "OPERATOR", value |-> <<"*">>],
     [type |-> "IDENTIFIER", value |-> <<"A">>],
     [type |-> "OPERATOR", value |-> <<"'">>],
     [type |-> "OPERATOR", value |-> <<"-">>],
     [type |-> "IDENTIFIER", value |-> <<"B">>],
     [type |-> "OPERATOR", value |-> <<"^">>],
     [type |-> "NUMBER", value |-> <<"2">>] >>

\* tokenize has returned
Tokenized ==
  pc \in {"toRPN", "eval"} \/ (pc = "done" /\ outcome.kind /= "EmptyExpression")

\* C9 as stated: the operator characters are + - * / ^ ' and every other
\* character outside the classes (the comma included) gives no token.
C9_TokensWithoutComma ==
  /\ pc \in {"tokenize", "toRPN"} => outcome.status = "pending"
  /\ Tokenized
       => /\ tokens = RefTokens(expression, 1, {"+", "-", "*", "/", "^", "'"})
          /\ expression = ExprSample => tokens = SampleTokens

\* C9 amended: as stated, except that the comma is an Operator token too.
C9_Tokens ==
  /\ pc \in {"tokenize", "toRPN"} => outcome.status = "pending"
  /\ Tokenized
       => /\ tokens = RefTokens(expression, 1, {"+", "-", "*", "/", "^", "'", ","})
          /\ expression = ExprSample => tokens = SampleTokens

C9_Witness == pc = "toRPN" /\ expression = ExprSample /\ tokens = SampleTokens

\* ---- C10
RefPrecedence == [op \in {"+", "-", "*", "/", "^", "'"} |->
                    IF op \in {"+", "-"} THEN 1
                    ELSE IF op \in {"*", "/"} THEN 2
                    ELSE IF op = "^" THEN 3 ELSE 4]

\* the stacked token x is an operator of precedence >= that of the token t
RefOutranks(x, t) ==
  /\ x.type = "OPERATOR"
  /\ x.value[1] \in DOMAIN RefPrecedence
  /\ t.value[1] \in DOMAIN RefPrecedence
  /\ RefPrecedence[x.value[1]] >= RefPrecedence[t.value[1]]

\* how many tokens on top of the stack st outrank t, one after the other
RefPopCount(st, t) ==
  CHOOSE n \in 0..Len(st) :
    /\ \A i \in 1..n : RefOutranks(st[Len(st) - i + 1], t)
    /\ n = Len(st) \/ ~RefOutranks(st[Len(st) - n], t)

C10_Step ==
  (pc = "toRPN" /\ index <= Len(tokens) /\ index' = index + 1
     /\ tokens[index].type = "OPERATOR")
  => IF tokens[index].value = <<"^">>
     THEN /\ operatorStack' = Append(operatorStack, tokens[index])
          /\ outputQueue' = outputQueue
     ELSE LET n == RefPopCount(operatorStack, tokens[index])
          IN /\ operatorStack'
                  = Append(SubSeq(operatorStack, 1, Len(operatorStack) - n),
                           tokens[index])
             /\ outputQueue'
                  = outputQueue
                      \o [i \in 1..n |-> operatorStack[Len(operatorStack) - i + 1]]

SampleRPN == <<<<"3">>, <<"A">>, <<"'">>, <<"*">>, <<"B">>, <<"2">>, <<"^">>, <<"-">>>>

C10_Sample ==
  (pc \in {"eval", "done"} /\ expression = ExprSample)
  => [k \in 1..Len(rpn) |-> rpn[k].value] = SampleRPN

Resolved ==
  pc \in {"tokenize", "toRPN", "eval"}
  \/ (pc = "done" /\ outcome.kind /= "EmptyExpression")

\* the resolver has just processed the whole list, or the call has ended
\* after it did (the mapping is not written in between)
MapSettled ==
  \/ pc = "tokenize" /\ lastIndex = 1 /\ tokens = <<>>
  \/ pc = "done" /\ outcome.kind /= "EmptyExpression"

MatrizPrefix == <<"M", "A", "T", "R", "I", "Z", " ">>

\* the uppercase of every lowercase letter
UpperOf ==
  [c \in {LowerLetters[k] : k \in 1..26} |->
     UpperLetters[CHOOSE k \in 1..26 : LowerLetters[k] = c]]

RefUpper(s) ==
  [k \in 1..Len(s) |-> IF s[k] \in DOMAIN UpperOf THEN UpperOf[s[k]] ELSE s[k]]

\* s without its leading and trailing blanks
RefTrim(s) ==
  LET inked == { k \in 1..Len(s) : s[k] /= " " }
  IN IF inked = {} THEN <<>>
     ELSE SubSeq(s, CHOOSE k \in inked : \A j \in inked : k <= j,
                    CHOOSE k \in inked : \A j \in inked : k >= j)

\* the key under which a name beginning with "Matriz " is also registered
\* (empty when there is none)
RefAlias(name) ==
  IF Len(name) >= 7 /\ RefUpper(SubSeq(name, 1, 7)) = MatrizPrefix
  THEN RefUpper(RefTrim(SubSeq(name, 8, Len(name))))
  ELSE <<>>

\* the letter runs X for which the list may hold a matrix named "Matriz X"
LetterRuns == { <<"A">>, <<"B">>, <<"C">>, <<"R">>, <<"A", "B">> }

\* the uppercased full names and the aliases of the list
UpperNames ==
  [k \in 1..Len(availableMatrices) |-> RefUpper(availableMatrices[k].name)]

Aliases ==
  [k \in 1..Len(availableMatrices) |-> RefAlias(availableMatrices[k].name)]

\* the indices of the matrices named "Matriz X", in any letter case
NamedMatriz(ups, X) == { k \in DOMAIN ups : ups[k] = MatrizPrefix \o X }

\* the indices of the matrices that register X by full name or by alias
Registers(ups, als, X) == { k \in DOMAIN ups : ups[k] = X \/ als[k] = X }

\* the identifier X denotes the matrix at index k: the mapping holds it, and
\* an expression that is the identifier alone leaves it on the stack
ResolvesTo(X, k) ==
  /\ X \in DOMAIN matrixMap
  /\ matrixMap[X] = availableMatrices[k]
  /\ (Finished /\ Len(tokens) = 1 /\ tokens[1].type = "IDENTIFIER"
        /\ toUpperCase(tokens[1].value) = X)
       => /\ stack = <<MatOp(availableMatrices[k])>>
          /\ outcome = Returned(<<>>)

\* the claim as stated: the only matrix named "Matriz X" always gets X
C11_AliasAlwaysWins ==
  MapSettled
  => \A ups \in {UpperNames} :
       \A X \in LetterRuns :
         \A k \in NamedMatriz(ups, X) :
           NamedMatriz(ups, X) = {k} => ResolvesTo(X, k)

\* C11: when exactly one matrix M of the list is named "Matriz X" (prefix in
\* any letter case) and no matrix later in the list than M registers X by
\* its full name or by its alias, the identifier X resolves to M, also when
\* an earlier matrix has the full name X or another matrix sits at the
\* position whose letter is X.
C11_AliasResolves ==
  MapSettled
  => \A ups \in {UpperNames} : \A als \in {Aliases} :
       \A X \in LetterRuns :
         \A k \in NamedMatriz(ups, X) :
           (NamedMatriz(ups, X) = {k} /\ \A j \in Registers(ups, als, X) : j <= k)
           => ResolvesTo(X, k)

C11_Witness ==
  /\ Finished
  /\ Len(availableMatrices) = 2
  /\ availableMatrices[1].name = <<"A">>
  /\ availableMatrices[2].name = <<"M", "a", "t", "r", "i", "z", " ", "A">>
  /\ expression = <<"a">>
  /\ stack = <<MatOp(availableMatrices[2])>>

\* ---- C12
\* C12: once the whole list is processed, a letter L that some matrix
\* registers by full name or alias maps to one of those matrices; a matrix
\* that L maps to without having registered it sits at the position whose
\* letter is L, and then no matrix registers L by name or alias.
C12_PositionNeverOverrides ==
  MapSettled
  => \A ups \in {UpperNames} : \A als \in {Aliases} :
       \* for a letter outside these keys no matrix registers it and the
       \* mapping has no entry: nothing is claimed about it
       \A keys \in { { ups[k] : k \in DOMAIN ups } \cup { als[k] : k \in DOMAIN als }
                       \cup DOMAIN matrixMap } :
         \A n \in { i \in 1..26 : <<UpperLetters[i]>> \in keys } :
           \A reg \in { Registers(ups, als, <<UpperLetters[n]>>) } :
             LET L == <<UpperLetters[n]>>
             IN /\ reg /= {}
                   => (L \in DOMAIN matrixMap
                       /\ \E k \in reg : matrixMap[L] = availableMatrices[k])
                /\ \A k \in 1..Len(availableMatrices) :
                     (L \in DOMAIN matrixMap /\ matrixMap[L] = availableMatrices[k]
                        /\ k \notin reg)
                     => (reg = {} /\ k = n)

C12_Witness ==
  /\ Finished
  /\ Len(availableMatrices) = 2
  /\ toUpperCase(availableMatrices[1].name) = MatrizPrefix \o <<"B">>
  /\ availableMatrices[2].name = <<"R", "2">>
  /\ matrixMap[<<"B">>] = availableMatrices[1]
  /\ matrixMap[<<"A">>] = availableMatrices[1]
  /\ expression = <<"B">>
  /\ stack = <<MatOp(availableMatrices[1])>>

\* ---- C13
\* the whole of tokenize, of toRPN and of the evaluation loop with the final
\* checks, as functions of their arguments
RECURSIVE RunTokenize(_, _, _)
RunTokenize(expr, last, toks) ==
  CHOOSE all \in
    { IF match.found
      THEN RunTokenize(expr, match.last + 1, tokenizePush(toks, expr, match))
      ELSE toks : match \in {regexExec(expr, last)} } : TRUE

RECURSIVE RunToRPN(_, _, _, _)
RunToRPN(toks, k, out, ops) ==
  IF k > Len(toks) THEN popAll(out, ops)
  ELSE CHOOSE queue \in
         { RunToRPN(toks, k + 1, r.out, r.ops)
           : r \in {toRPNToken(out, ops, toks[k])} } : TRUE

RECURSIVE RunEval(_, _, _, _, _, _)
RunEval(w, map, stk, trace, queue, k) ==
  IF k > Len(queue)
  THEN IF finalCheck(stk) /= "none"
       THEN Threw(finalCheck(stk), "ExpressionError", <<>>)
       ELSE Returned(trace)
  ELSE CHOOSE o \in
         { IF r.throw /= "none" THEN Threw(r.throw, r.cls, r.arg)
           ELSE RunEval(r.w, map, r.stack, r.trace, queue, k + 1)
           : r \in {evalToken(w, map, stk, trace, queue[k])} } : TRUE

\* the arrays of the caller's matrices: the heap as it was at the call
RECURSIVE InputArrays(_)
InputArrays(k) ==
  IF k = 0 THEN 0 ELSE InputArrays(k - 1) + availableMatrices[k].rows + 1

\* the heap and the mapping the call starts from
InitialWorld ==
  World(SubSeq(heap, 1, InputArrays(Len(availableMatrices))),
        Len(availableMatrices) + 1)

InitialMap == resolveFrom(<<>>, availableMatrices, 0)

RunOutcomeFrom(expr, w, map) ==
  IF trim(expr) = <<>> THEN Threw("EmptyExpression", "ExpressionError", <<>>)
  ELSE RunEval(w, map, <<>>, <<>>,
               RunToRPN(RunTokenize(expr, 1, <<>>), 1, <<>>, <<>>), 1)

\* what evaluateExpression(expr, availableMatrices) hands to its caller
RunOutcome(expr) == RunOutcomeFrom(expr, InitialWorld, InitialMap)

FlipCase(c) ==
  IF \E k \in 1..26 : LowerLetters[k] = c
  THEN UpperLetters[CHOOSE k \in 1..26 : LowerLetters[k] = c]
  ELSE IF \E k \in 1..26 : UpperLetters[k] = c
  THEN LowerLetters[CHOOSE k \in 1..26 : UpperLetters[k] = c]
  ELSE c

\* the expression with the case of one or more of its letters changed
CaseVariants(expr) ==
  { [k \in 1..Len(expr) |-> IF k \in S THEN FlipCase(expr[k]) ELSE expr[k]]
    : S \in (SUBSET { k \in 1..Len(expr) : IsLetter(expr[k]) }) \ {{}} }

\* the same outcome, the literal of an unknown identifier apart
SameOutcome(o1, o2) ==
  IF o1.kind = "UnknownVariable"
  THEN o2 = [o1 EXCEPT !.arg = o2.arg] /\ toUpperCase(o1.arg) = toUpperCase(o2.arg)
  ELSE o1 = o2

\* s occurs in expr as written
OccursIn(s, expr) ==
  \E i \in 1..Len(expr) :
    i + Len(s) - 1 <= Len(expr) /\ SubSeq(expr, i, i + Len(s) - 1) = s

C13_SameInAnyCase ==
  (Finished /\ \E k \in 1..Len(expression) : IsLetter(expression[k]))
  => \A w \in {InitialWorld} : \A map \in {InitialMap} :
       \A v \in CaseVariants(expression) :
         SameOutcome(RunOutcomeFrom(v, w, map), outcome)

\* an identifier reached by the evaluator: without an entry for its
\* uppercased lexeme the call fails naming the lexeme, with one it goes on
C13_Step ==
  (pc = "eval" /\ position <= Len(rpn) /\ rpn[position].type = "IDENTIFIER")
  => IF toUpperCase(rpn[position].value) \in DOMAIN matrixMap
     THEN /\ outcome' = Pending
          /\ stack' = Append(stack, MatOp(matrixMap[toUpperCase(rpn[position].value)]))
     ELSE /\ pc' = "done"
          /\ outcome' = Threw("UnknownVariable", "ExpressionError", rpn[position].value)
          /\ OccursIn(rpn[position].value, expression)

\* C13: an expression has the same outcome whatever the letter case of its
\* identifiers, and an identifier whose uppercased lexeme has no entry in
\* the mapping makes the call fail with UnknownVariable naming the
\* identifier as it is written in the expression.
C13_CaseInsensitive == []C13_SameInAnyCase /\ [][C13_Step]_vars

C13_Witness ==
  /\ Failed("UnknownVariable")
  /\ outcome.arg = <<"b">>
  /\ <<"B">> \notin DOMAIN matrixMap
  /\ <<"A">> \in DOMAIN matrixMap

\* ---- C14
\* the loop over rpn ran to its end
LoopCompleted == Finished /\ Resolved /\ position > Len(rpn)

C14_Samples ==
  [x \in { <<"3", "*", "2">>, <<"1", "+", "2">>, <<"7">> } |->
     IF x = <<"3", "*", "2">> THEN Num(6)
     ELSE IF x = <<"1", "+", "2">> THEN Num(3) ELSE Num(7)]

\* C14: an evaluation that ends with a single scalar on the stack fails
\* with FinalResultMustBeMatrix and hands no trace over; "3*2", "1+2" and
\* "7" end that way, with 6, 3 and 7 on the stack.
C14_ScalarResult ==
  /\ (LoopCompleted /\ Len(stack) = 1 /\ stack[1].t = "number")
       => /\ outcome = Threw("FinalResultMustBeMatrix", "ExpressionError", <<>>)
          /\ outcome.trace = <<>>
  /\ (Finished /\ expression \in DOMAIN C14_Samples)
       => /\ stack = <<NumOp(C14_Samples[expression])>>
          /\ Failed("FinalResultMustBeMatrix")

C14_Witness ==
  /\ Failed("FinalResultMustBeMatrix")
  /\ expression = <<"3", "*", "2">>
  /\ stack = <<NumOp(Num(6))>>

\* ---- C15
Blank(expr) == \A k \in 1..Len(expr) : expr[k] \in {" ", "\t", "\n"}

\* C15: on an expression that is empty or all whitespace the call fails with
\* EmptyExpression as its first step, whatever the matrices: the mapping is
\* never built and neither tokenize nor toRPN nor the evaluation loop runs.
C15_EmptyFirst ==
  Blank(expression)
  => /\ pc \in {"entry", "done"}
     /\ pc = "done" => outcome = Threw("EmptyExpression", "ExpressionError", <<>>)
     /\ matrixMap = <<>>
     /\ tokens = <<>> /\ lastIndex = 1
     /\ outputQueue = <<>> /\ operatorStack = <<>> /\ index = 1 /\ rpn = <<>>
     /\ stack = <<>> /\ executionTrace = <<>> /\ position = 1

C15_Witness ==
  /\ Failed("EmptyExpression")
  /\ expression = <<" ", "\t", "\n">>
  /\ Len(availableMatrices) = 2
  /\ matrixMap = <<>>

\* ---- C16
\* the evaluator is about to apply the binary operator op to two operands
Applying(ops) ==
  /\ pc = "eval" /\ position <= Len(rpn)
  /\ rpn[position].type = "OPERATOR" /\ rpn[position].value \in ops
  /\ Len(stack) >= 2

LeftOperand == stack[Len(stack) - 1]

RightOperand == stack[Len(stack)]

C16_Step ==
  Applying({<<"+">>, <<"-">>})
  => IF LeftOperand.t /= RightOperand.t
     THEN /\ pc' = "done"
          /\ outcome'.status = "threw"
          /\ outcome'.kind = "ScalarMatrixAdditionUnsupported"
          /\ outcome'.trace = <<>>
          /\ heap' = heap /\ executionTrace' = executionTrace
     ELSE /\ outcome'.kind /= "ScalarMatrixAdditionUnsupported"
          /\ LeftOperand.t = "number"
               => /\ outcome' = Pending
                  /\ stack' = Append(SubSeq(stack, 1, Len(stack) - 2),
                                      NumOp(IF rpn[position].value = <<"+">>
                                            THEN numAdd(LeftOperand.v, RightOperand.v)
                                            ELSE numSub(LeftOperand.v, RightOperand.v)))

\* C16: + or - applied to a scalar and a matrix, in either order, fails with
\* ScalarMatrixAdditionUnsupported whatever the shape of the matrix; two
\* scalars give their sum or difference and two matrices never fail with
\* that kind.
C16_ScalarMatrixRejected == [][C16_Step]_vars

C16_Witness ==
  /\ Failed("ScalarMatrixAdditionUnsupported")
  /\ expression = <<"A", "-", "2">>
  /\ MatA.rows /= MatA.cols
  /\ rpn[position].value = <<"-">>

\* ---- C17
\* the expression is a numeral times a known identifier, in either order
ScalarTimesMatrix ==
  /\ Tokenized /\ Len(tokens) = 3
  /\ tokens[2] = Token("OPERATOR", <<"*">>)
  /\ \/ tokens[1].type = "NUMBER" /\ tokens[3].type = "IDENTIFIER"
     \/ tokens[1].type = "IDENTIFIER" /\ tokens[3].type = "NUMBER"
  /\ \A n \in {1, 3} :
       tokens[n].type = "IDENTIFIER" => toUpperCase(tokens[n].value) \in DOMAIN matrixMap

TheNumeral == IF tokens[1].type = "NUMBER" THEN tokens[1].value ELSE tokens[3].value

TheIdentifier == IF tokens[1].type = "NUMBER" THEN tokens[3].value ELSE tokens[1].value

AllIntegers(h, m) ==
  \A i \in 1..m.rows : \A j \in 1..m.cols : Grid(h, m)[i][j].e = 0

C17_Product ==
  (Finished /\ ScalarTimesMatrix)
  => LET k == parseFloat(TheNumeral)
         M == matrixMap[toUpperCase(TheIdentifier)]
         X == Grid(heap, M)
     IN /\ outcome.status = "returned"
        /\ Len(outcome.trace) = 1
        /\ LET R == outcome.trace[1]
           IN /\ R.rows = M.rows /\ R.cols = M.cols
              /\ R.name = NumStr(k) \o <<"(">> \o M.name \o <<")">>
              /\ Grid(heap, R)
                   = [i \in 1..M.rows |-> [j \in 1..M.cols |->
                        toFixed4(numMul(k, X[i][j]))]]
              /\ (k.e = 0 /\ AllIntegers(heap, M))
                   => Grid(heap, R)
                        = [i \in 1..M.rows |-> [j \in 1..M.cols |->
                             Num(k.m * X[i][j].m)]]
        \* the other operand order hands over the very same trace
        /\ RunOutcome(tokens[3].value \o <<"*">> \o tokens[1].value) = outcome

C17_Sample ==
  (Finished /\ expression \in {<<"2", ".", "5", "*", "A">>, <<"A", "*", "2", ".", "5">>}
     /\ Grid(heap, MatA) = Lit(<< <<1, 2>>, <<3, 4>> >>))
  => /\ Succeeded
     /\ Grid(heap, outcome.trace[1])
          = << <<Dec(25, 1), Num(5)>>, <<Dec(75, 1), Num(10)>> >>
     /\ outcome.trace[1].name
          = <<"2", ".", "5", "(", "M", "a", "t", "r", "i", "z", " ", "A", ")">>

\* C17: "k*M" and "M*k" hand over the same single matrix: M's shape, the
\* name k(M), every cell k.M[i][j] rounded to 4 decimals, which is exactly
\* k.M[i][j] when k and the cells are integers.
C17_ScalarEitherOrder == C17_Product /\ C17_Sample

C17_Witness ==
  /\ Succeeded
  /\ expression = <<"A", "*", "2", ".", "5">>
  /\ Len(outcome.trace) = 1
  /\ MatA.rows /= MatA.cols
  /\ Grid(heap, MatA)[1][1] = Dec(1, 5)
  /\ Grid(heap, outcome.trace[1])[1][1] = Num(0)

\* ---- C18
RefProduct(rounded, X, Y) ==
  IF rounded THEN RefRoundedProduct(X, Y) ELSE RefExactProduct(X, Y)

\* one application of * to two matrices
C18_Step(rounded) ==
  (Applying({<<"*">>}) /\ LeftOperand.t = "object" /\ RightOperand.t = "object")
  => LET A == LeftOperand.v
         B == RightOperand.v
     IN IF A.cols = B.rows
        THEN /\ outcome' = Pending
             /\ Len(stack') = Len(stack) - 1
             /\ Top(stack').t = "object"
             /\ LET R == Top(stack').v
                IN /\ R.rows = A.rows /\ R.cols = B.cols
                   /\ Grid(heap', R) = RefProduct(rounded, Grid(heap, A), Grid(heap, B))
                   /\ executionTrace' = Append(executionTrace, R)
        ELSE /\ pc' = "done"
             /\ outcome'.status = "threw"
             /\ outcome'.kind = "DimensionMismatch"
             /\ outcome'.trace = <<>>

\* the expression is a product of three known identifiers
ChainOfThree ==
  /\ Tokenized /\ Len(tokens) = 5
  /\ \A n \in {1, 3, 5} :
       /\ tokens[n].type = "IDENTIFIER"
       /\ toUpperCase(tokens[n].value) \in DOMAIN matrixMap
  /\ \A n \in {2, 4} : tokens[n] = Token("OPERATOR", <<"*">>)

C18_Chain(rounded) ==
  (Finished /\ ChainOfThree)
  => LET X == matrixMap[toUpperCase(tokens[1].value)]
         Y == matrixMap[toUpperCase(tokens[3].value)]
         Z == matrixMap[toUpperCase(tokens[5].value)]
     IN IF X.cols /= Y.rows \/ Y.cols /= Z.rows
        THEN Failed("DimensionMismatch")
        ELSE /\ Succeeded
             /\ Len(outcome.trace) = 2
             /\ LET XY == RefProduct(rounded, Grid(heap, X), Grid(heap, Y))
                    r == multiplyMatrices(
                           World(SubSeq(heap, 1, InputArrays(Len(availableMatrices))),
                                 Len(availableMatrices) + 1),
                           <<X, Y, Z>>)
                IN /\ Grid(heap, outcome.trace[1]) = XY
                   /\ Grid(heap, outcome.trace[2])
                        = RefProduct(rounded, XY, Grid(heap, Z))
                   /\ outcome.trace[2].rows = X.rows
                   /\ outcome.trace[2].cols = Z.cols
                   /\ r.throw = "none"
                   /\ Grid(r.w.heap, r.val) = Grid(heap, outcome.trace[2])

\* the claim as stated: every cell of a product is the sum of the products
C18_ExactProduct == [][C18_Step(FALSE)]_vars /\ []C18_Chain(FALSE)

\* C18: * on two matrices needs A.cols = B.rows, else DimensionMismatch; the
\* result is A.rows x B.cols and its cell (i,j) is the sum over k of
\* A[i][k].B[k][j] rounded to 4 decimals.  "A*B*C" is (A.B).C with both
\* products in the trace in that order, each rounded so, and
\* multiplyMatrices([A,B,C]) gives the same final data.
C18_RoundedProduct == [][C18_Step(TRUE)]_vars /\ []C18_Chain(TRUE)

C18_Witness ==
  /\ Succeeded
  /\ ChainOfThree
  /\ Len(outcome.trace) = 2
  /\ MatA.rows /= MatA.cols
  /\ Grid(heap, outcome.trace[1]) /= RefExactProduct(Grid(heap, MatA), Grid(heap, MatB))

\* ---- C19
\* nothing was computed and nothing was traced
NothingComputed ==
  heap' = heap /\ nextId' = nextId /\ executionTrace' = executionTrace

C19_Step ==
  Applying({<<"^">>})
  => IF LeftOperand.t = "object" /\ RightOperand.t = "number"
     THEN outcome'.kind /= "PowerOperandTypeError"
     ELSE /\ pc' = "done"
          /\ outcome' = Threw("PowerOperandTypeError", "ExpressionError", <<>>)
          /\ NothingComputed

C19_Samples ==
  /\ (Finished /\ expression = <<"2", "^", "3">>) => Failed("PowerOperandTypeError")
  /\ (Finished /\ expression = <<"2", "^", "A">>) => Failed("PowerOperandTypeError")
  /\ (Finished /\ expression = <<"A", "^", "B">> /\ Len(availableMatrices) >= 2)
       => Failed("PowerOperandTypeError")

\* C19: ^ applied to a left operand a and a right operand b fails with
\* PowerOperandTypeError unless a is a matrix and b a scalar, before
\* anything is computed; "2^3", "2^A" and "A^B" fail so.
C19_PowerOperands == [][C19_Step]_vars /\ []C19_Samples

C19_Witness ==
  /\ Failed("PowerOperandTypeError")
  /\ expression = <<"2", "^", "3">>
  /\ rpn[position].value = <<"^">>
  /\ executionTrace = <<>>

\* ---- C20
C20_Step ==
  (Applying({<<"^">>}) /\ LeftOperand.t = "object" /\ RightOperand.t = "number")
  => LET M == LeftOperand.v
         n == RightOperand.v
     IN IF M.rows /= M.cols
        THEN /\ pc' = "done"
             /\ outcome'.status = "threw" /\ outcome'.kind = "DimensionMismatch"
             /\ outcome'.trace = <<>>
             /\ NothingComputed
        ELSE IF ~(n.e = 0 /\ n.m >= 1)
        THEN /\ pc' = "done"
             /\ outcome'.status = "threw" /\ outcome'.kind = "InvalidExponent"
             /\ outcome'.trace = <<>>
             /\ NothingComputed
        ELSE /\ outcome' = Pending
             /\ Len(executionTrace') = Len(executionTrace) + 1

C20_Samples ==
  (Finished /\ MatA.rows = MatA.cols
     /\ expression \in { <<"A", "^", "0">>, <<"A", "^", "2", ".", "5">>,
                         <<"A", "^", "(", "1", "-", "2", ")">> })
  => Failed("InvalidExponent")

\* C20: ^ on a matrix M and a scalar n fails with DimensionMismatch when M
\* is not square and with InvalidExponent when M is square and n is not an
\* integer >= 1 ("A^0", "A^2.5", an exponent of -1); no matrix is produced
\* or traced in either case.
C20_PowerPreconditions == [][C20_Step]_vars /\ []C20_Samples

C20_Witness ==
  /\ Failed("DimensionMismatch")
  /\ expression = <<"A", "^", "0">>
  /\ MatA.rows /= MatA.cols
  /\ executionTrace = <<>>

\* ---- C21
\* the evaluator is at a binary operator of ops with fewer than two operands
Lacking(ops) ==
  /\ pc = "eval" /\ position <= Len(rpn)
  /\ rpn[position].type = "OPERATOR" /\ rpn[position].value \in ops
  /\ Len(stack) < 2

Arithmetic == { <<"+">>, <<"-">>, <<"*">>, <<"^">> }

C21_Step ==
  /\ Lacking(Arithmetic)
       => /\ pc' = "done"
          /\ outcome' = Threw("MissingOperand", "ExpressionError", <<>>)
          /\ NothingComputed
  /\ Applying(Arithmetic) => outcome'.kind /= "MissingOperand"

C21_Samples ==
  (Finished /\ expression \in { <<"A", "+">>, <<"-", "A">>, <<"*">> })
  => Failed("MissingOperand")

\* C21: a binary operator + - * ^ applied when the stack holds fewer than
\* two operands makes the call fail with MissingOperand, nothing being
\* computed, and with two operands it never fails so; "A+", "-A" and "*"
\* fail with MissingOperand.
C21_MissingOperand == [][C21_Step]_vars /\ []C21_Samples

C21_Witness ==
  /\ Failed("MissingOperand")
  /\ expression = <<"-", "A">>
  /\ rpn = <<Token("IDENTIFIER", <<"A">>), Token("OPERATOR", <<"-">>)>>
  /\ position = 2

\* ---- C22
\* the evaluator is at the transpose operator
AtTranspose ==
  /\ pc = "eval" /\ position <= Len(rpn)
  /\ rpn[position] = Token("OPERATOR", <<"'">>)

C22_Step ==
  AtTranspose
  => /\ Len(stack) = 0
          => /\ pc' = "done"
             /\ outcome' = Threw("MissingOperand", "ExpressionError", <<>>)
     /\ outcome'.kind = "TransposeRequiresMatrix"
          => (Len(stack) > 0 /\ Top(stack).t = "number")

\* C22: the transpose operator applied while the operand stack is empty
\* makes the call fail with MissingOperand, and TransposeRequiresMatrix is
\* raised only when the popped operand is a scalar.
C22_TransposeOnEmptyStack == [][C22_Step]_vars

\* the expression "'" ends with the error of a transposed scalar
C22_Witness ==
  /\ Failed("TransposeRequiresMatrix")
  /\ expression = <<"'">>
  /\ rpn = <<Token("OPERATOR", <<"'">>)>>
  /\ stack = <<>>

\* ---- C23
C23_Samples ==
  { <<"A", " ", "B">>, <<"2", "A">>, <<"#">>, <<"(", ")">>, <<"2", " ", "2">> }

\* C23: when the loop over the RPN ends without a failure the call fails
\* with MalformedExpression exactly when the stack does not hold one value,
\* also when the values left are scalars (the test of the size comes before
\* the test of the type); "A B", "2A", "2 2" and expressions of skipped
\* characters only fail so.
C23_StackOfOne ==
  /\ LoopCompleted
       => /\ Len(stack) /= 1
               <=> outcome = Threw("MalformedExpression", "ExpressionError", <<>>)
          /\ Len(stack) = 1 => outcome.kind \in {"", "FinalResultMustBeMatrix"}
  /\ (Finished /\ expression \in C23_Samples /\ Len(availableMatrices) >= 2)
       => /\ LoopCompleted
          /\ Failed("MalformedExpression")
          /\ Len(stack) = (IF expression \in { <<"#">>, <<"(", ")">> } THEN 0 ELSE 2)

C23_Witness ==
  /\ Failed("MalformedExpression")
  /\ expression = <<"2", "A">>
  /\ stack = <<NumOp(Num(2)), MatOp(MatA)>>
  /\ position > Len(rpn)

\* ---- C24
\* the arrays a matrix's data reference reaches: the outer array and the rows
Arrays(m) == {m.data} \cup { heap[m.data][i] : i \in 1..Len(heap[m.data]) }

\* C24: no matrix of a returned trace shares its outer array or a row with
\* an input matrix or with another matrix of the trace, so that writing a
\* cell of a returned matrix changes no cell of an available matrix.
C24_NoSharedGrid ==
  Succeeded
  => \A i \in 1..Len(outcome.trace) :
       /\ \A k \in 1..Len(availableMatrices) :
            Arrays(outcome.trace[i]) \cap Arrays(availableMatrices[k]) = {}
       /\ \A j \in 1..Len(outcome.trace) :
            j /= i => Arrays(outcome.trace[i]) \cap Arrays(outcome.trace[j]) = {}

\* "A^1" returns a matrix whose data is the array of the input A
C24_Witness ==
  /\ Succeeded
  /\ expression = <<"A", "^", "1">>
  /\ Len(outcome.trace) = 1
  /\ outcome.trace[1].id /= MatA.id
  /\ outcome.trace[1].data = MatA.data

\* ---- C25
\* the step of the evaluator appends a matrix to the trace
Traced == Len(executionTrace') = Len(executionTrace) + 1

NewMatrix == executionTrace'[Len(executionTrace')]

\* the forms "c{row}{col} = <expression> = <result>" of the primitives
EquationForms ==
  {"sum", "difference", "dot", "SUMA_ESCALAR", "RESTA_ESCALAR", "MULT_ESCALAR"}

\* lines first..first + rows x cols - 1 of m's steps are one equation per
\* cell of a rows x cols grid, row by row
RowMajorLines(m, first, forms) ==
  \A n \in 1..(m.rows * m.cols) :
    LET l == m.steps[first + n - 1]
    IN /\ l.kind = "cell" /\ l.form \in forms
       /\ l.row = ((n - 1) \div m.cols) + 1
       /\ l.col = ((n - 1) % m.cols) + 1

\* a summary line, then one equation per cell of m, row by row, each with
\* the value of its cell
SummaryThenCells(m, h, forms) ==
  /\ Len(m.steps) = 1 + m.rows * m.cols
  /\ m.steps[1].kind = "summary"
  /\ RowMajorLines(m, 2, forms)
  /\ \A n \in 2..Len(m.steps) :
       m.steps[n].res = Grid(h, m)[m.steps[n].row][m.steps[n].col]

\* a summary line, then one line "c{col}{row} toma el valor de a{row}{col}"
\* per cell of the operand, row by row of the operand: column by column of m
SummaryThenTaken(m, h) ==
  /\ Len(m.steps) = 1 + m.rows * m.cols
  /\ m.steps[1].kind = "summary"
  /\ \A n \in 1..(m.rows * m.cols) :
       LET l == m.steps[n + 1]
       IN /\ l.kind = "cell" /\ l.form = "toma"
          /\ l.col = ((n - 1) \div m.rows) + 1
          /\ l.row = ((n - 1) % m.rows) + 1
          /\ l.res = Grid(h, m)[l.row][l.col]

\* one line for exponent 1; for exponent n > 1, n - 1 blocks of a header,
\* a summary and the equations of one product
PowerSteps(m, n) ==
  IF n = 1 THEN m.steps = <<Summary("Potencia 1 es la misma matriz.")>>
  ELSE /\ Len(m.steps) = (n - 1) * (2 + m.rows * m.cols)
       /\ \A b \in 1..(n - 1) :
            LET at == (b - 1) * (2 + m.rows * m.cols)
            IN /\ m.steps[at + 1] = Line("header", "Potencia", b + 1, 0, <<>>, Num(0))
               /\ m.steps[at + 2].kind = "summary"
               /\ RowMajorLines(m, at + 3, {"dot"})

\* the claim as stated: every traced matrix has a summary and the equations
\* of its cells row by row
C25_Uniform == Traced => SummaryThenCells(NewMatrix, heap', EquationForms)

C25_SummaryThenCellsAlways == [][C25_Uniform]_vars

C25_Step ==
  Traced
  => IF AtTranspose THEN SummaryThenTaken(NewMatrix, heap')
     ELSE IF Applying({<<"^">>}) THEN PowerSteps(NewMatrix, RightOperand.v.m)
     ELSE /\ Applying({<<"+">>, <<"-">>, <<"*">>})
          /\ SummaryThenCells(NewMatrix, heap',
               IF rpn[position].value = <<"+">> THEN {"sum"}
               ELSE IF rpn[position].value = <<"-">> THEN {"difference"}
               ELSE IF LeftOperand.t = "object" /\ RightOperand.t = "object"
               THEN {"dot"} ELSE {"MULT_ESCALAR"})

\* C25: a matrix produced by Add, Subtract, Multiply or ScalarOp carries a
\* summary line followed by one line per cell, row by row of the result, of
\* the form "c{row}{col} = <expression> = <result>": 1 + rows x cols lines.
\* Transpose carries a summary line followed by one line per cell of the
\* form "c{col}{row} toma el valor de a{row}{col} (<value>)" in the order of
\* the rows of its operand (c11, c21, ... of the result). Power carries one
\* line for exponent 1 and, for exponent n > 1, n - 1 blocks of a header
\* line followed by the summary and cell lines of one product.
C25_StepsByPrimitive == [][C25_Step]_vars

C25_Witness ==
  /\ Succeeded
  /\ expression = <<"A", "'">>
  /\ MatA.rows = 2 /\ MatA.cols = 2
  /\ outcome.trace[1].steps[3].form = "toma"
  /\ outcome.trace[1].steps[3].row = 2 /\ outcome.trace[1].steps[3].col = 1

\* ---- C26
\* The grouping of a well-formed expression, as the RPN a parser by levels
\* gives:  Sum = Product {(+|-) Product},  Product = Power {* Power},
\* Power = Unary [^ Unary],  Unary = Atom {'},  Atom = numeral | identifier
\* | ( Sum ).  With deferred = TRUE the last ' of a base is applied after
\* the ^ that follows it. A chain of ^ is no Power.
Parsed(out, k) == [ok |-> TRUE, out |-> out, k |-> k]

NotParsed == [ok |-> FALSE, out |-> <<>>, k |-> 0]

IsOp(toks, k, c) == k <= Len(toks) /\ toks[k] = Token("OPERATOR", <<c>>)

RECURSIVE PrimesFrom(_, _)
PrimesFrom(toks, k) == IF IsOp(toks, k, "'") THEN 1 + PrimesFrom(toks, k + 1) ELSE 0

Primes(n) == [i \in 1..n |-> Token("OPERATOR", <<"'">>)]

RECURSIVE GroupSum(_, _, _)
RECURSIVE GroupSumRest(_, _, _)
RECURSIVE GroupProduct(_, _, _)
RECURSIVE GroupProductRest(_, _, _)
RECURSIVE GroupPower(_, _, _)
RECURSIVE GroupAtom(_, _, _)
GroupAtom(toks, k, deferred) ==
  IF k > Len(toks) THEN NotParsed
  ELSE IF toks[k].type \in {"NUMBER", "IDENTIFIER"} THEN Parsed(<<toks[k]>>, k + 1)
  ELSE IF toks[k].type = "LPAREN"
  THEN LET r == GroupSum(toks, k + 1, deferred)
       IN IF r.ok /\ r.k <= Len(toks) /\ toks[r.k].type = "RPAREN"
          THEN Parsed(r.out, r.k + 1)
          ELSE NotParsed
  ELSE NotParsed

GroupPower(toks, k, deferred) ==
  LET a == GroupAtom(toks, k, deferred)
      n == PrimesFrom(toks, a.k)
      b == GroupAtom(toks, a.k + n + 1, deferred)
      m == PrimesFrom(toks, b.k)
      power == Token("OPERATOR", <<"^">>)
  IN IF ~a.ok THEN NotParsed
     ELSE IF ~IsOp(toks, a.k + n, "^") THEN Parsed(a.out \o Primes(n), a.k + n)
     ELSE IF ~b.ok \/ IsOp(toks, b.k + m, "^") THEN NotParsed
     ELSE IF deferred /\ n > 0
     THEN Parsed(a.out \o Primes(n - 1) \o b.out \o Primes(m) \o <<power>> \o Primes(1),
                 b.k + m)
     ELSE Parsed(a.out \o Primes(n) \o b.out \o Primes(m) \o <<power>>, b.k + m)

GroupProductRest(toks, acc, deferred) ==
  IF ~IsOp(toks, acc.k, "*") THEN acc
  ELSE LET p == GroupPower(toks, acc.k + 1, deferred)
       IN IF ~p.ok THEN NotParsed
          ELSE GroupProductRest(toks, Parsed(acc.out \o p.out \o <<toks[acc.k]>>, p.k),
                                deferred)

GroupProduct(toks, k, deferred) ==
  LET p == GroupPower(toks, k, deferred)
  IN IF ~p.ok THEN NotParsed ELSE GroupProductRest(toks, p, deferred)

GroupSumRest(toks, acc, deferred) ==
  IF ~(IsOp(toks, acc.k, "+") \/ IsOp(toks, acc.k, "-")) THEN acc
  ELSE LET p == GroupProduct(toks, acc.k + 1, deferred)
       IN IF ~p.ok THEN NotParsed
          ELSE GroupSumRest(toks, Parsed(acc.out \o p.out \o <<toks[acc.k]>>, p.k),
                            deferred)

GroupSum(toks, k, deferred) ==
  LET p == GroupProduct(toks, k, deferred)
  IN IF ~p.ok THEN NotParsed ELSE GroupSumRest(toks, p, deferred)

Grouping(toks, deferred) ==
  LET r == GroupSum(toks, 1, deferred)
  IN IF r.ok /\ r.k = Len(toks) + 1 THEN r ELSE NotParsed

\* toRPN has just returned
Converted == pc = "eval" /\ position = 1

\* the order of evaluation is the grouping of the expression
GroupedAs(deferred) ==
  Converted => \A g \in {Grouping(tokens, deferred)} : g.ok => rpn = g.out

Paren(x, op, y) == <<"(">> \o x \o <<" ">> \o op \o <<" ">> \o y \o <<")">>

\* the third operand of a sample: C, or A in its place
Third == IF expression[Len(expression)] = "C" THEN availableMatrices[3] ELSE MatA

\* what the samples compute first and last
C26_Samples ==
  Succeeded
  => LET t == outcome.trace
         A == MatA.name
         B == MatB.name
         Z == Third.name
     IN /\ expression \in { <<"A", "-", "B", "-", "A">>, <<"A", "-", "B", "-", "C">> }
             => /\ t[1].name = Paren(A, <<"-">>, B)
                /\ t[2].name = Paren(t[1].name, <<"-">>, Z)
        /\ expression \in { <<"A", "+", "B", "*", "A">>, <<"A", "+", "B", "*", "C">> }
             => /\ t[1].name = Paren(B, <<"{middot}">>, Z)
                /\ t[2].name = Paren(A, <<"+">>, t[1].name)
        /\ expression = <<"A", "*", "B", "'">>
             => /\ t[1].name = B \o <<"{sup T}">>
                /\ t[2].name = Paren(A, <<"{middot}">>, t[1].name)
        /\ expression \in { <<"(", "A", "+", "B", ")", "*", "A">>,
                            <<"(", "A", "+", "B", ")", "*", "C">> }
             => /\ t[1].name = Paren(A, <<"+">>, B)
                /\ t[2].name = Paren(t[1].name, <<"{middot}">>, Z)

Reversed(st) == [i \in 1..Len(st) |-> st[Len(st) - i + 1]]

\* the ( still open and the ) without a ( after the characters from k on,
\* open and unmatched being those counted before k
RECURSIVE ParenCount(_, _, _, _)
ParenCount(expr, k, open, unmatched) ==
  IF k > Len(expr) THEN [open |-> open, unmatched |-> unmatched]
  ELSE IF expr[k] = "(" THEN ParenCount(expr, k + 1, open + 1, unmatched)
  ELSE IF expr[k] = ")"
  THEN IF open > 0 THEN ParenCount(expr, k + 1, open - 1, unmatched)
       ELSE ParenCount(expr, k + 1, open, unmatched + 1)
  ELSE ParenCount(expr, k + 1, open, unmatched)

Unbalanced(expr) ==
  LET c == ParenCount(expr, 1, 0, 0) IN c.open + c.unmatched > 0

\* the expression with the missing parentheses written at its two ends
Balanced(expr) ==
  LET c == ParenCount(expr, 1, 0, 0)
  IN [i \in 1..c.unmatched |-> "("] \o expr \o [i \in 1..c.open |-> ")"]

C27_Step ==
  \* toRPN hands no failure over
  /\ pc = "toRPN" => outcome' = Pending
  \* a ) with no ( on the operator stack moves every stacked operator to
  \* the output
  /\ (/\ pc = "toRPN" /\ index <= Len(tokens) /\ tokens[index].type = "RPAREN"
      /\ \A i \in 1..Len(operatorStack) : operatorStack[i].type /= "LPAREN")
       => /\ outputQueue' = outputQueue \o Reversed(operatorStack)
          /\ operatorStack' = <<>>
  \* what is left on the operator stack at the end, ( included, is emitted
  /\ (pc = "toRPN" /\ index > Len(tokens))
       => rpn' = outputQueue \o Reversed(operatorStack)
  \* the evaluator passes over a (
  /\ (pc = "eval" /\ position <= Len(rpn) /\ rpn[position].type = "LPAREN")
       => /\ stack' = stack /\ NothingComputed
          /\ outcome' = Pending /\ position' = position + 1

\* an unbalanced expression ends as the expression with its missing
\* parentheses written does
C27_AsBalanced ==
  (Finished /\ Unbalanced(expression))
  => \A w \in {InitialWorld} : \A map \in {InitialMap} :
       outcome = RunOutcomeFrom(Balanced(expression), w, map)

C27_Samples ==
  (Finished /\ expression \in { <<"(", "A", "+", "B">>, <<"A", "+", "B", ")">> }
     /\ Len(availableMatrices) >= 2 /\ SameShape(MatA, MatB))
  => /\ Succeeded
     /\ Len(outcome.trace) = 1
     /\ Grid(heap, outcome.trace[1])
          = [i \in 1..MatA.rows |->
               [j \in 1..MatA.cols |->
                  numAdd(Grid(heap, MatA)[i][j], Grid(heap, MatB)[i][j])]]

\* C27: toRPN never fails: a ) with no matching ( moves every stacked
\* operator to the output and discards nothing, a ( left open is emitted at
\* the end and passed over by the evaluator; "(A+B" and "A+B)" return the
\* data of "A+B", and an unbalanced expression fails only as the evaluation
\* of its operators and operands fails: it ends as the expression with the
\* missing parentheses written at its ends does.
C27_UnbalancedParentheses ==
  [][C27_Step]_vars /\ []C27_AsBalanced /\ []C27_Samples

C27_Witness ==
  /\ Succeeded
  /\ expression = <<"(", "A", "+", "B">>
  /\ rpn[Len(rpn)].type = "LPAREN"
  /\ Len(outcome.trace) = 1

\* ---- C28
Unsupported == { <<"/">>, <<",">> }

C28_Step ==
  /\ Applying(Unsupported)
       => /\ pc' = "done"
          /\ outcome' = Threw("UnknownOperator", "ExpressionError", rpn[position].value)
          /\ NothingComputed
  /\ Lacking(Unsupported)
       => /\ pc' = "done"
          /\ outcome' = Threw("MissingOperand", "ExpressionError", <<>>)
          /\ NothingComputed

C28_NeverSucceeds ==
  (Finished /\ \E i \in 1..Len(expression) : expression[i] \in {"/", ","})
  => /\ outcome.status = "threw"
     /\ outcome.trace = <<>>

\* C28: an expression containing / or a comma never evaluates successfully;
\* when the / or the comma is reached with at least two operands on the
\* stack the call fails with UnknownOperator naming it, with fewer operands
\* it fails with MissingOperand.
C28_DivisionAndComma == [][C28_Step]_vars /\ []C28_NeverSucceeds

C28_Witness ==
  /\ Failed("UnknownOperator")
  /\ expression = <<"A", ",", "B">>
  /\ outcome.arg = <<",">>
  /\ rpn[position].value = <<",">>

\* ---- C29
\* the expression is identifier ^ numeral ^ numeral, the identifier known
PowerChain ==
  /\ Tokenized
  /\ [k \in 1..Len(tokens) |-> tokens[k].type]
       = <<"IDENTIFIER", "OPERATOR", "NUMBER", "OPERATOR", "NUMBER">>
  /\ tokens[2].value = <<"^">> /\ tokens[4].value = <<"^">>
  /\ toUpperCase(tokens[1].value) \in DOMAIN matrixMap

Promoting ==
  /\ pc = "render"
  /\ outcome.status = "returned"
  /\ autoAddResult
  /\ Len(outcome.trace) > 0

Promoted == outcome.trace[Len(outcome.trace)]

C30_Step ==
  Promoting
  => /\ Len(matrices') = Len(matrices) + 1
     /\ SubSeq(matrices', 1, Len(matrices)) = matrices
     /\ LET new == matrices'[Len(matrices')]
        IN /\ [new EXCEPT !.id = Promoted.id, !.name = Promoted.name] = Promoted
           /\ \A k \in 1..Len(matrices) : matrices[k].id /= new.id
           /\ \A k \in 1..Len(outcome.trace) : outcome.trace[k].id /= new.id
           /\ selectedIds' = Append(selectedIds, new.id)
     /\ results' = SelectSeq(outcome.trace, LAMBDA r : r.id /= Promoted.id)
     /\ \A i \in 1..Len(results'), j \in 1..Len(results) : results'[i] /= results[j]

\* C30: when handleSolveExpression succeeds with auto-add enabled and a
\* non-empty trace, the applied updates leave matrices with one new matrix,
\* a copy of the last element of the trace under a new id, that id appended
\* to selectedIds, and results holding the other matrices of the new trace
\* and none of the results displayed before.
C30_PromotionUpdates == [][C30_Step]_vars

\* after "A+B" with a result of an earlier calculation on display, that
\* result is still displayed and the new sum is not
C30_Witness ==
  /\ pc = "idle"
  /\ expression = <<"A", "+", "B">>
  /\ outcome.status = "returned" /\ autoAddResult
  /\ Len(outcome.trace) = 1
  /\ Len(matrices) = Len(availableMatrices) + 1
  /\ Len(results) = 1
  /\ results[1].id /= outcome.trace[1].id
  /\ results[1].name = <<"R">>

====
